---- MODULE Spec2Model ----
(***************************************************************************)
(* Global Org Chart Builder: the person list kept by App.tsx, its mutation *)
(* handlers (add, update, delete, move, reorder) and the Hierarchy Deriver *)
(* of OrgChart.tsx (rootPeople, effectiveTiers); the rest of the           *)
(* application state with its load, auto-save and import; the rows the     *)
(* Tree Composer renders; the registry controls of the edit modal; the     *)
(* Tier Aligner; and the zoom factor of the canvas.                        *)
(*                                                                         *)
(* A Person is a record                                                    *)
(*   [id, name, title, department, location, managerId, teamName,          *)
(*    sortOrder, isTeamLead, tier].                                        *)
(* Ids, departments and manager references are strings.  managerId has     *)
(* three "no manager" forms (null, absent, ''), all falsy in JavaScript.   *)
(* name is the rank of the display name in the collation order that        *)
(* String.prototype.localeCompare induces (equal rank = equal name).       *)
(* An absent sortOrder or tier (null / undefined) is NoOrder / NoTier; an  *)
(* absent teamName, department, location or title is ''  (all falsy).      *)
(***************************************************************************)
EXTENDS Integers, Sequences, FiniteSets, TLC

\* ---------------------------------------------------------------- bounds
MaxPeople == 3
MaxSortOrder == 2
MaxTier == 2
MoveListLen == 4
ImportLen == 2
MaxRegistry == 2
ConnectorPeople == 4
PathsMaxTime == 112
DebounceMaxTime == 96
MaxVersion == 6
ZoomMaxTime == 400
MaxScaleChanges == 2
CacheMaxTime == 96
CacheVersions == 4
CacheScaleChanges == 1
MaxCardWidth == 320
MaxSupporters == 7
MaxQueued == 2
AlignPeople == 4
ComposeReports == 3

\* ------------------------------------------------------------- constants
\* a.sortOrder ?? 999999
SortLast == 999999
\* sortOrder absent (null / undefined): the value on which ?? falls back
NoOrder == -1
\* tier absent (p.tier != null is false)
NoTier == -1

IdOf == <<"a", "b", "c", "d", "e", "f">>
Ids == {IdOf[i] : i \in 1..MaxPeople}
\* an id that no person of the list ever carries (a dangling reference)
GhostId == "zz"

Null == "null"
Absent == "undefined"
Empty == ""
\* the managerId values for which !p.managerId holds
NoManager == {Null, Absent, Empty}
Truthy(s) == s \notin NoManager

\* constants.ts, cut to the first entries (indices are 1-based here)
DEPARTMENTS == <<"Executive", "Sales">>
LOCATIONS == <<"UK", "Hong Kong">>
JOB_TITLES == <<"CEO", "Director">>

\* DEPT_COLORS, DEFAULT_LINE_SETTINGS and DEFAULT_CARD_SETTINGS, two entries each
DEPT_COLORS == [d \in {"Executive", "Sales"} |-> IF d = "Executive" THEN "slate" ELSE "emerald"]
NoColors == [d \in {} |-> "slate"]
DEFAULT_LINE_SETTINGS == [primaryColor |-> "#94a3b8", secondaryStyle |-> "dotted"]
DEFAULT_CARD_SETTINGS == [shadow |-> "md", padding |-> "normal"]

\* DEPARTMENTS[0] and a second registry entry
DeptChoices == {"Executive", "Sales"}

VARIABLES
  people,          \* appState.people: the person list, in array order
  prevPeople,      \* history: the person list the last handler was applied to
  lastOp,          \* history: the last handler call, its arguments and outcome
  rendered,        \* whether OrgChart has rendered the current list
  rootPeople,      \* OrgChart's memoised root row (ids, in render order)
  effectiveTiers,  \* OrgChart's memoised id -> tier map
  childRows,       \* manager id -> its direct reports, left to right, as the
                   \* HierarchyTree components rendered them (StaleRows before)
  older,           \* history: prevPeople and lastOp as they were before the last
                   \* tracked call (kept by ReorderTracked only)
  departments,     \* appState.departments: the department registry, in order
  locations,       \* appState.locations
  jobTitles,       \* appState.jobTitles
  departmentColors,\* appState.departmentColors: department -> colour name
  locationColors,  \* appState.locationColors
  lineSettings,    \* appState.lineSettings
  cardSettings,    \* appState.cardSettings
  prevApp,         \* history: the seven fields above before the last call
  lastDoc,         \* history: the file content handed to the last import
  storage,         \* localStorage: one raw entry per storage key
  prevStorage,     \* localStorage before the last load or save
  editingPerson,   \* OrgChart: the copy the edit modal works on, or null
  nodeRects,       \* browser layout: natural top and height of every card
  marginTop,       \* style.marginTop of every data-tier-align wrapper
  scale,           \* OrgChart: the zoom factor of the canvas, in 1/Unit
  secondaryManagerIds, \* person id -> that person's secondaryManagerIds array
  supportedIds,    \* person id -> that person's supportedIds array
  supportDrop,     \* the support lines converging on one target card: its
                   \* centre and width, the side they attach to, and the x
                   \* of each drop (in quarter pixels)
  dom,             \* the document: the node-<id> and dept-badge-<name> elements
                   \* in it, and how many times its structure has changed
  pathsData,       \* Lines: the connector list of the last calculatePaths run
  positionCache,   \* Lines: positionCacheRef, cache key -> measured position
  now,             \* the clock, in milliseconds
  timers,          \* the pending setTimeout callbacks of Lines
  frames,          \* the pending requestAnimationFrame callbacks of Lines
  debounceRef,     \* Lines: debounceRef.current (0 = null)
  animationFrameRef, \* Lines: animationFrameRef.current (0 = null)
  prevScaleRef,    \* Lines: prevScaleRef.current
  scaleCleanup,    \* whether the last run of the scale effect returned a cleanup
  nextHandle,      \* the next timer / frame handle the browser hands out
  lastRun,         \* history: when and by what calculatePaths last ran
  lastEvent,       \* history: the last scale change and the last notification
  closure,         \* the person list captured by the handlers of the last render
                   \* while requests of theirs are queued (<<>>: none is queued,
                   \* the rendered list is people)
  queued           \* history: the move requests dispatched since that render

\* appState without the person list
appRest ==
  <<departments, locations, jobTitles, departmentColors, locationColors, lineSettings, cardSettings>>

\* what the person-list handlers and the renders leave alone
layout == <<nodeRects, marginTop, scale>>
\* the connector router (Lines.tsx) and the chart it reads
connectors == <<secondaryManagerIds, supportedIds, supportDrop, dom, pathsData, positionCache>>
schedule ==
  <<now, timers, frames, debounceRef, animationFrameRef, prevScaleRef, scaleCleanup, nextHandle,
    lastRun, lastEvent>>
lines == <<connectors, schedule, closure, queued>>
offList == <<appRest, prevApp, lastDoc, storage, prevStorage, editingPerson, layout, lines>>

vars == <<people, prevPeople, lastOp, rendered, rootPeople, effectiveTiers, childRows, older,
          offList>>

\* ------------------------------------------------------- list utilities
IdsOf(ppl) == {ppl[i].id : i \in 1..Len(ppl)}
Has(ppl, id) == \E i \in 1..Len(ppl) : ppl[i].id = id
\* Array.prototype.find(p => p.id === id), for an id the list holds
Find(ppl, id) == ppl[CHOOSE i \in 1..Len(ppl) : ppl[i].id = id /\ \A j \in 1..(i-1) : ppl[j].id # id]
\* Array.prototype.filter(p => p.managerId === parentId)
ChildrenOf(ppl, parentId) == SelectSeq(ppl, LAMBDA p : p.managerId = parentId)
Max(a, b) == IF a >= b THEN a ELSE b
Min(a, b) == IF a <= b THEN a ELSE b
\* the distinct elements of ks in order of first appearance: the iteration
\* order of a Set and of the keys of an object filled from ks
FirstSeen(ks) ==
  LET idx == SelectSeq([i \in 1..Len(ks) |-> i], LAMBDA i : \A j \in 1..(i - 1) : ks[j] # ks[i])
  IN [k \in 1..Len(idx) |-> ks[idx[k]]]

\* how many times v occurs in seq
Occurrences(seq, v) == Cardinality({k \in 1..Len(seq) : seq[k] = v})

\* ------------------------------------------------- sibling comparator
orderOf(p) == IF p.sortOrder = NoOrder THEN SortLast ELSE p.sortOrder
leadOf(p) == IF p.isTeamLead THEN 0 ELSE 1
\* a.name.localeCompare(b.name) on collation ranks
localeCompare(x, y) == IF x < y THEN -1 ELSE IF x > y THEN 1 ELSE 0

sortBySortOrder(a, b) ==
  IF orderOf(a) # orderOf(b) THEN orderOf(a) - orderOf(b)
  ELSE IF leadOf(a) # leadOf(b) THEN leadOf(a) - leadOf(b)
  ELSE localeCompare(a.name, b.name)

\* Array.prototype.sort is stable: x goes after every element not greater
InsertSorted(s, x) ==
  LET k == Cardinality({j \in 1..Len(s) : sortBySortOrder(s[j], x) <= 0})
  IN SubSeq(s, 1, k) \o <<x>> \o SubSeq(s, k + 1, Len(s))

RECURSIVE SortPeople(_)
SortPeople(s) ==
  IF Len(s) = 0 THEN <<>>
  ELSE InsertSorted(SortPeople(SubSeq(s, 1, Len(s) - 1)), s[Len(s)])

\* -------------------------------------------------- descendant walks
\* The recursions of App.tsx carry no visited set.  A call nested deeper
\* than the list is long has repeated a parent id, so the same call recurs
\* forever: the engine throws RangeError (stack overflow).  "overflow" is
\* that outcome.
RECURSIVE isDescendantFrom(_, _, _, _, _)
isDescendantFrom(ppl, children, i, childId, fuel) ==
  IF i > Len(children) THEN "false"
  ELSE IF children[i].id = childId THEN "true"
  ELSE LET r == IF fuel = 0 THEN "overflow"
                ELSE isDescendantFrom(ppl, ChildrenOf(ppl, children[i].id), 1, childId, fuel - 1)
       IN IF r = "false" THEN isDescendantFrom(ppl, children, i + 1, childId, fuel) ELSE r

\* isDescendant that looks at the direct reports only (no recursion)
isDescendantDirectOnly(ppl, parentId, childId) ==
  IF \E k \in 1..Len(ppl) : ppl[k].managerId = parentId /\ ppl[k].id = childId
  THEN "true" ELSE "false"

isDescendant(ppl, parentId, childId) ==
  isDescendantFrom(ppl, ChildrenOf(ppl, parentId), 1, childId, Len(ppl) + 1)

RECURSIVE DescendantWalk(_, _, _, _)
DescendantWalk(ppl, children, i, fuel) ==
  IF i > Len(children) THEN [ok |-> TRUE, ids |-> <<>>]
  ELSE IF fuel = 0 THEN [ok |-> FALSE, ids |-> <<>>]
  ELSE LET sub == DescendantWalk(ppl, ChildrenOf(ppl, children[i].id), 1, fuel - 1)
           rest == DescendantWalk(ppl, children, i + 1, fuel)
       IN IF sub.ok /\ rest.ok
          THEN [ok |-> TRUE, ids |-> <<children[i].id>> \o sub.ids \o rest.ids]
          ELSE [ok |-> FALSE, ids |-> <<>>]

\* getDescendants that stops at the direct reports
getDescendantsDirectOnly(parentId, allPeople) ==
  [ok |-> TRUE, ids |-> [k \in 1..Len(ChildrenOf(allPeople, parentId)) |->
                           ChildrenOf(allPeople, parentId)[k].id]]

\* handleMovePerson's getDescendants(parentId, allPeople)
getDescendants(parentId, allPeople) ==
  DescendantWalk(allPeople, ChildrenOf(allPeople, parentId), 1, Len(allPeople) + 1)

\* handleUpdatePerson's getDescendantIds(parentId, allPeople)
getDescendantIds(parentId, allPeople) ==
  DescendantWalk(allPeople, ChildrenOf(allPeople, parentId), 1, Len(allPeople) + 1)

SeqToSet(s) == {s[i] : i \in 1..Len(s)}

\* ------------------------------------------------------ handleMovePerson
\* targetPerson?.department; undefined (no such target) is falsy like ''
departmentOfTarget(snap, targetId) ==
  IF Has(snap, targetId) THEN Find(snap, targetId).department ELSE Empty

\* targetChildren.reduce((max, c) => Math.max(max, c.sortOrder ?? 0), 0)
RECURSIVE maxOrderOf(_, _)
maxOrderOf(s, i) ==
  IF i > Len(s) THEN 0
  ELSE Max(IF s[i].sortOrder = NoOrder THEN 0 ELSE s[i].sortOrder, maxOrderOf(s, i + 1))

\* What the synchronous part of the handler decides, on the list the
\* handler closed over (snap): "same" (dragged onto itself), "rejected"
\* (alert), "threw" (the descendant walk overflowed) or "moved".
MoveOutcome(snap, draggedId, targetId) ==
  IF draggedId = targetId THEN "same"
  ELSE LET d == isDescendant(snap, draggedId, targetId)
       IN IF d = "true" THEN "rejected"
          ELSE IF d = "overflow" THEN "threw"
          ELSE IF getDescendants(draggedId, snap).ok THEN "moved" ELSE "threw"

\* setPeople(prev => prev.map(...)) with the values computed from snap
moveMap(snap, prev, draggedId, targetId) ==
  LET targetDepartment == departmentOfTarget(snap, targetId)
      descendantIds == SeqToSet(getDescendants(draggedId, snap).ids)
      maxOrder == maxOrderOf(ChildrenOf(snap, targetId), 1)
  IN [i \in 1..Len(prev) |->
        IF prev[i].id = draggedId
        THEN [prev[i] EXCEPT !.managerId = targetId,
                            !.department = IF targetDepartment # Empty
                                           THEN targetDepartment ELSE prev[i].department,
                            !.sortOrder = maxOrder + 1]
        ELSE IF prev[i].id \in descendantIds /\ targetDepartment # Empty
        THEN [prev[i] EXCEPT !.department = targetDepartment]
        ELSE prev[i]]

handleMovePerson(snap, prev, draggedId, targetId) ==
  IF MoveOutcome(snap, draggedId, targetId) = "moved"
  THEN moveMap(snap, prev, draggedId, targetId)
  ELSE prev

\* ---------------------------------------------------- handleUpdatePerson
UpdateOutcome(prev, updated) ==
  IF Has(prev, updated.id) /\ Find(prev, updated.id).department # updated.department
  THEN IF getDescendantIds(updated.id, prev).ok THEN "cascaded" ELSE "threw"
  ELSE "replaced"

handleUpdatePerson(prev, updated) ==
  LET outcome == UpdateOutcome(prev, updated)
  IN IF outcome = "threw" THEN prev
     ELSE IF outcome = "cascaded"
     THEN LET descendantIds == SeqToSet(getDescendantIds(updated.id, prev).ids)
          IN [i \in 1..Len(prev) |->
                IF prev[i].id = updated.id THEN updated
                ELSE IF prev[i].id \in descendantIds
                THEN [prev[i] EXCEPT !.department = updated.department]
                ELSE prev[i]]
     ELSE [i \in 1..Len(prev) |-> IF prev[i].id = updated.id THEN updated ELSE prev[i]]

\* ---------------------------------------------------- handleDeletePerson
\* delete that also detaches the direct reports (managerId: null)
handleDeletePersonDetaching(prev, id) ==
  LET kept == SelectSeq(prev, LAMBDA p : p.id # id)
  IN [i \in 1..Len(kept) |->
        IF kept[i].managerId = id THEN [kept[i] EXCEPT !.managerId = Null] ELSE kept[i]]

handleDeletePerson(prev, id) == SelectSeq(prev, LAMBDA p : p.id # id)

\* ------------------------------------- handleAddNewPerson / handleAddPerson
normalizeMgrId(id) == IF Truthy(id) THEN id ELSE Null

\* the sortOrder handleAddNewPerson gives the new record
newSortOrder(ppl, managerId) ==
  LET newMgrId == normalizeMgrId(managerId)
      siblings == SelectSeq(ppl, LAMBDA p : normalizeMgrId(p.managerId) = newMgrId)
  IN IF Len(siblings) > 0 THEN maxOrderOf(siblings, 1) + 1 ELSE 0

\* the record handleAddNewPerson builds from the add form
newPersonRecord(ppl, id, name, department, managerId, isTeamLead) ==
  [id |-> id, name |-> name, title |-> JOB_TITLES[1],
   department |-> IF department # Empty THEN department ELSE DEPARTMENTS[1],
   location |-> LOCATIONS[1],
   managerId |-> normalizeMgrId(managerId), teamName |-> Empty,
   sortOrder |-> newSortOrder(ppl, managerId),
   isTeamLead |-> isTeamLead, tier |-> NoTier]

handleAddPerson(prev, person) == Append(prev, person)

\* --------------------------------------------------- handleReorderPerson
siblingsOf(prev, personId) ==
  LET personMgrId == normalizeMgrId(Find(prev, personId).managerId)
  IN SortPeople(SelectSeq(prev, LAMBDA p : normalizeMgrId(p.managerId) = personMgrId))

indexOfId(s, id) == CHOOSE i \in 1..Len(s) : s[i].id = id

\* currentIndex and targetIndex are 1-based here (0-based in the source)
ReorderApplies(prev, personId, direction) ==
  /\ Has(prev, personId)
  /\ LET siblings == siblingsOf(prev, personId)
         currentIndex == indexOfId(siblings, personId)
         targetIndex == IF direction = "left" THEN currentIndex - 1 ELSE currentIndex + 1
     IN Len(siblings) > 1 /\ targetIndex >= 1 /\ targetIndex <= Len(siblings)

\* reorder that exchanges the two stored sortOrder values as they are
handleReorderPersonSwapOnly(prev, personId, direction) ==
  IF ~ReorderApplies(prev, personId, direction) THEN prev
  ELSE LET siblings == siblingsOf(prev, personId)
           currentIndex == indexOfId(siblings, personId)
           targetIndex == IF direction = "left" THEN currentIndex - 1 ELSE currentIndex + 1
       IN [i \in 1..Len(prev) |->
             IF prev[i].id = personId
             THEN [prev[i] EXCEPT !.sortOrder = siblings[targetIndex].sortOrder]
             ELSE IF prev[i].id = siblings[targetIndex].id
             THEN [prev[i] EXCEPT !.sortOrder = siblings[currentIndex].sortOrder]
             ELSE prev[i]]

\* reorder that renumbers p and its neighbour only
handleReorderPersonPairOnly(prev, personId, direction) ==
  IF ~ReorderApplies(prev, personId, direction) THEN prev
  ELSE LET siblings == siblingsOf(prev, personId)
           currentIndex == indexOfId(siblings, personId)
           targetIndex == IF direction = "left" THEN currentIndex - 1 ELSE currentIndex + 1
       IN [i \in 1..Len(prev) |->
             IF prev[i].id = personId
             THEN [prev[i] EXCEPT !.sortOrder = targetIndex - 1]
             ELSE IF prev[i].id = siblings[targetIndex].id
             THEN [prev[i] EXCEPT !.sortOrder = currentIndex - 1]
             ELSE prev[i]]

handleReorderPerson(prev, personId, direction) ==
  IF ~ReorderApplies(prev, personId, direction) THEN prev
  ELSE LET siblings == siblingsOf(prev, personId)
           currentIndex == indexOfId(siblings, personId)
           targetIndex == IF direction = "left" THEN currentIndex - 1 ELSE currentIndex + 1
           targetSibling == siblings[targetIndex]
           \* normalizedOrders, 0-based
           normalizedOrders == [id \in {siblings[k].id : k \in 1..Len(siblings)} |->
              IF id = personId THEN targetIndex - 1
              ELSE IF id = targetSibling.id THEN currentIndex - 1
              ELSE indexOfId(siblings, id) - 1]
       IN [i \in 1..Len(prev) |->
             IF prev[i].id \in DOMAIN normalizedOrders
             THEN [prev[i] EXCEPT !.sortOrder = normalizedOrders[prev[i].id]]
             ELSE prev[i]]

\* ------------------------------------------------- Hierarchy Deriver
\* people.filter(p => !p.managerId || !people.find(m => m.id === p.managerId))
\*       .sort(sortBySortOrder)
\* root filter that forgets the dangling-reference clause
rootPeopleOfNoDangling(ppl) ==
  SortPeople(SelectSeq(ppl, LAMBDA p : ~Truthy(p.managerId)))

rootPeopleOf(ppl) ==
  SortPeople(SelectSeq(ppl, LAMBDA p : ~Truthy(p.managerId) \/ ~Has(ppl, p.managerId)))

idsOfSeq(s) == [i \in 1..Len(s) |-> s[i].id]

\* childrenOf.get(id) || []  (only truthy managerIds are indexed)
childrenOfMap(ppl, id) ==
  SelectSeq(ppl, LAMBDA p : Truthy(p.managerId) /\ p.managerId = id)

manualOr(p, dflt) == IF p.tier # NoTier THEN p.tier ELSE dflt

\* effective tier without the clamp: the manual tier wins as it stands
effectiveOfUnclamped(child, parentTier) ==
  IF child.tier # NoTier THEN child.tier ELSE parentTier + 1

\* Math.max(desired, parentTier + 1)
effectiveOf(child, parentTier) == Max(manualOr(child, parentTier + 1), parentTier + 1)

\* the BFS loop; DOMAIN tiers is the visited set
RECURSIVE bfsTiers(_, _, _)
bfsTiers(ppl, queue, tiers) ==
  IF Len(queue) = 0 THEN tiers
  ELSE LET id == Head(queue)
           parentTier == tiers[id]
           fresh == SelectSeq(childrenOfMap(ppl, id), LAMBDA c : c.id \notin DOMAIN tiers)
           freshIds == {fresh[k].id : k \in 1..Len(fresh)}
           set == [cid \in freshIds |-> effectiveOf(Find(ppl, cid), parentTier)]
       IN bfsTiers(ppl, Tail(queue) \o idsOfSeq(fresh), tiers @@ set)

effectiveTiersOf(ppl) ==
  LET roots == rootPeopleOf(ppl)
      rootIds == {roots[k].id : k \in 1..Len(roots)}
      seed == [id \in rootIds |-> manualOr(Find(ppl, id), 0)]
      reached == bfsTiers(ppl, idsOfSeq(roots), seed)
  IN [id \in IdsOf(ppl) |->
        IF id \in DOMAIN reached THEN reached[id] ELSE manualOr(Find(ppl, id), 0)]

\* ---------------------------------------------------------- viewport
\* scale factors are kept in thousandths: Unit stands for 1.0
Unit == 1000
MIN_ZOOM == 250
MAX_ZOOM == 2000
ZOOM_STEP == 150
\* useState(0.8)
InitialScale == 800

\* wheel zoom that is only capped from above
wheelScaleNoFloor(oldScale, factor) == Min((oldScale * factor) \div Unit, MAX_ZOOM)

\* onWheel with ctrlKey / metaKey: factor is 0.998 ^ deltaY, in thousandths
wheelScale(oldScale, factor) ==
  Min(Max(MIN_ZOOM, (oldScale * factor) \div Unit), MAX_ZOOM)

zoomInScale(oldScale) == Min(oldScale + ZOOM_STEP, MAX_ZOOM)
zoomOutScale(oldScale) == Max(oldScale - ZOOM_STEP, MIN_ZOOM)

\* (container * 0.9) / content; a content of size 0 gives Infinity, which
\* the Math.min with MAX_ZOOM removes
fitRatio(container, content) ==
  IF content = 0 THEN MAX_ZOOM ELSE Min((container * 9 * Unit) \div (content * 10), MAX_ZOOM)

\* handleFitToScreen on a container and an unscaled content of these sizes
fitScale(containerWidth, containerHeight, contentWidth, contentHeight) ==
  Max(MIN_ZOOM, Min(fitRatio(containerWidth, contentWidth),
                    fitRatio(containerHeight, contentHeight)))

\* ------------------------------------------------------- appState
\* the seven fields as one record
AppRecord(d, l, j, dc, lc, ls, cs) ==
  [departments |-> d, locations |-> l, jobTitles |-> j, departmentColors |-> dc,
   locationColors |-> lc, lineSettings |-> ls, cardSettings |-> cs]

AppNow ==
  AppRecord(departments, locations, jobTitles, departmentColors, locationColors,
            lineSettings, cardSettings)

\* the fallbacks of the state initializer
AppDefaults ==
  AppRecord(DEPARTMENTS, LOCATIONS, JOB_TITLES, DEPT_COLORS, NoColors,
            DEFAULT_LINE_SETTINGS, DEFAULT_CARD_SETTINGS)

AppIs(app) ==
  /\ departments = app.departments /\ locations = app.locations /\ jobTitles = app.jobTitles
  /\ departmentColors = app.departmentColors /\ locationColors = app.locationColors
  /\ lineSettings = app.lineSettings /\ cardSettings = app.cardSettings

AppBecomes(app) ==
  /\ departments' = app.departments /\ locations' = app.locations /\ jobTitles' = app.jobTitles
  /\ departmentColors' = app.departmentColors /\ locationColors' = app.locationColors
  /\ lineSettings' = app.lineSettings /\ cardSettings' = app.cardSettings

\* a localStorage entry: absent (getItem gives null), text that JSON.parse
\* rejects, the text "null", or the JSON text of val
RawEntry(tag, val) == [tag |-> tag, val |-> val]

\* every key absent
EmptyStorage ==
  [people |-> RawEntry("absent", <<>>), departments |-> RawEntry("absent", <<>>),
   locations |-> RawEntry("absent", <<>>), jobTitles |-> RawEntry("absent", <<>>),
   departmentColors |-> RawEntry("absent", NoColors),
   locationColors |-> RawEntry("absent", NoColors),
   lineSettings |-> RawEntry("absent", DEFAULT_LINE_SETTINGS),
   cardSettings |-> RawEntry("absent", DEFAULT_CARD_SETTINGS)]

\* ------------------------------- state initializer and auto-save effect
\* safeParse that leaves a corrupt entry where it is
safeParseLeavesAll(entry) == entry

\* the value safeParse returns for a raw entry
safeParse(entry, fallback) == IF entry.tag = "value" THEN entry.val ELSE fallback

\* the raw entry safeParse leaves behind: the catch block removes the key
safeParseLeaves(entry) ==
  IF entry.tag = "corrupt" THEN RawEntry("absent", entry.val) ELSE entry

\* { ...defaults, ...saved }
mergedSettings(defaults, saved) ==
  [k \in DOMAIN defaults \cup DOMAIN saved |-> IF k \in DOMAIN saved THEN saved[k] ELSE defaults[k]]

\* the {} fallback of the two settings keys
NoSettings == [k \in {} |-> Empty]

loadedPeople(store) == safeParse(store.people, <<>>)

loadedApp(store) ==
  AppRecord(safeParse(store.departments, DEPARTMENTS),
            safeParse(store.locations, LOCATIONS),
            safeParse(store.jobTitles, JOB_TITLES),
            safeParse(store.departmentColors, DEPT_COLORS),
            safeParse(store.locationColors, NoColors),
            mergedSettings(DEFAULT_LINE_SETTINGS, safeParse(store.lineSettings, NoSettings)),
            mergedSettings(DEFAULT_CARD_SETTINGS, safeParse(store.cardSettings, NoSettings)))

\* localStorage after the eight setItem calls of the auto-save effect
savedStorage(ppl, app) ==
  [people |-> RawEntry("value", ppl),
   departments |-> RawEntry("value", app.departments),
   locations |-> RawEntry("value", app.locations),
   jobTitles |-> RawEntry("value", app.jobTitles),
   departmentColors |-> RawEntry("value", app.departmentColors),
   locationColors |-> RawEntry("value", app.locationColors),
   lineSettings |-> RawEntry("value", app.lineSettings),
   cardSettings |-> RawEntry("value", app.cardSettings)]

\* ------------------------------------------------------ handleImportData
\* A field of an imported object: missing (undefined), null, or a value.
Field(tag, val) == [tag |-> tag, val |-> val]

\* The content of an imported file.  kind: "unparsable" (JSON.parse throws),
\* "null", "scalar" (a number, string or boolean), "array" (its elements in
\* people) or "object" (its fields in people and fields).
Doc(kind, ppl, flds) == [kind |-> kind, people |-> ppl, fields |-> flds]

NoFields ==
  AppRecord(Field("missing", <<>>), Field("missing", <<>>), Field("missing", <<>>),
            Field("missing", NoColors), Field("missing", NoColors),
            Field("missing", DEFAULT_LINE_SETTINGS), Field("missing", DEFAULT_CARD_SETTINGS))

NoDoc == Doc("none", Field("missing", <<>>), NoFields)

\* import that takes every object for a snapshot
importOutcomeAnyObject(doc) ==
  IF doc.kind \in {"unparsable", "null"} THEN "alert: Error parsing JSON file."
  ELSE IF doc.kind = "array" THEN "legacy"
  ELSE IF doc.kind = "object" THEN "snapshot"
  ELSE "alert: Invalid data format."

\* "legacy", "snapshot", or one of the two alerts.  Reading .people of null
\* throws a TypeError that the handler's catch reports as a parse error.
importOutcome(doc) ==
  IF doc.kind \in {"unparsable", "null"} THEN "alert: Error parsing JSON file."
  ELSE IF doc.kind = "array" THEN "legacy"
  ELSE IF doc.kind = "object" /\ doc.people.tag = "value" THEN "snapshot"
  ELSE "alert: Invalid data format."

\* legacy import that appends every value of the array as it comes
legacyRegistryAppendAll(registry, values) ==
  registry \o SelectSeq(values, LAMBDA v : v # Empty)

\* Array.from(new Set([...registry, ...values.filter(Boolean)]))
legacyRegistry(registry, values) ==
  FirstSeen(registry \o SelectSeq(FirstSeen(values), LAMBDA v : v # Empty))

\* importedData.field || prev.field
importedOr(field, prevValue) == IF field.tag = "value" THEN field.val ELSE prevValue

\* the appState the updater returns (people first, then the seven fields)
importPeople(doc, prev) ==
  IF importOutcome(doc) \in {"legacy", "snapshot"} THEN doc.people.val ELSE prev

importApp(doc, app) ==
  LET outcome == importOutcome(doc)
      ppl == doc.people.val
  IN IF outcome = "legacy"
     THEN [app EXCEPT
             !.departments = legacyRegistry(app.departments, [i \in 1..Len(ppl) |-> ppl[i].department]),
             !.locations = legacyRegistry(app.locations, [i \in 1..Len(ppl) |-> ppl[i].location])]
     ELSE IF outcome = "snapshot"
     THEN [app EXCEPT
             !.departments = importedOr(doc.fields.departments, app.departments),
             !.locations = importedOr(doc.fields.locations, app.locations),
             !.departmentColors = importedOr(doc.fields.departmentColors, app.departmentColors),
             !.locationColors = importedOr(doc.fields.locationColors, app.locationColors),
             !.lineSettings = importedOr(doc.fields.lineSettings, app.lineSettings),
             !.cardSettings = importedOr(doc.fields.cardSettings, app.cardSettings)]
     ELSE app

\* ------------------------------------------------- Tree Composer
\* The left-to-right order in which HierarchyTree and TeamGroup put the
\* direct reports of root on screen.  Object.entries lists the keys of the
\* grouping objects in first-insertion order (team and department names
\* are not integer-like strings): FirstSeen.
RECURSIVE Flatten(_)
Flatten(ss) == IF Len(ss) = 0 THEN <<>> ELSE Head(ss) \o Flatten(Tail(ss))

\* p.department || 'Other'
deptNameOf(p) == IF p.department # Empty THEN p.department ELSE "Other"

\* TeamGroup: sortedMembers
TeamGroupRow(members) == SortPeople(members)

\* the teams, one TeamGroup each, then the reports without a team
teamsThenOthers(reports) ==
  LET withTeam == SelectSeq(reports, LAMBDA p : p.teamName # Empty)
      teams == FirstSeen([i \in 1..Len(withTeam) |-> withTeam[i].teamName])
  IN Flatten([k \in 1..Len(teams) |->
                TeamGroupRow(SelectSeq(reports, LAMBDA p : p.teamName = teams[k]))])
     \o SelectSeq(reports, LAMBDA p : p.teamName = Empty)

\* HierarchyTree for root, rendered with the given isInsideParentTeam
HierarchyTreeRow(ppl, root, isInsideParentTeam) ==
  LET directReports == SortPeople(ChildrenOf(ppl, root.id))
      rootTeamName == root.teamName
  IN IF rootTeamName # Empty /\ ~isInsideParentTeam
     THEN \* root heads a TeamGroup: same team (or none) first, other teams after
          LET sameTeamMembers ==
                SelectSeq(directReports, LAMBDA p : p.teamName = Empty \/ p.teamName = rootTeamName)
              otherMembers ==
                SelectSeq(directReports, LAMBDA p : p.teamName # Empty /\ p.teamName # rootTeamName)
              otherTeams == FirstSeen([i \in 1..Len(otherMembers) |-> otherMembers[i].teamName])
          IN TeamGroupRow(sameTeamMembers)
             \o Flatten([k \in 1..Len(otherTeams) |->
                           TeamGroupRow(SelectSeq(otherMembers, LAMBDA p : p.teamName = otherTeams[k]))])
     ELSE IF \E k \in 1..Len(directReports) : deptNameOf(directReports[k]) # root.department
     THEN \* showDeptBadges: one block per department
          LET depts == FirstSeen([i \in 1..Len(directReports) |-> deptNameOf(directReports[i])])
          IN Flatten([k \in 1..Len(depts) |->
                        teamsThenOthers(SelectSeq(directReports, LAMBDA p : deptNameOf(p) = depts[k]))])
     ELSE teamsThenOthers(directReports)

\* whether the HierarchyTree of id is rendered with isInsideParentTeam:
\* department heads (reports of a root) are not; below them, every member
\* of a TeamGroup is
RECURSIVE isInsideParentTeam(_, _, _)
isInsideParentTeam(ppl, id, fuel) ==
  LET me == Find(ppl, id)
      mgr == me.managerId
  IN IF ~Truthy(mgr) \/ ~Has(ppl, mgr) THEN FALSE
     ELSE IF ~Truthy(Find(ppl, mgr).managerId) \/ ~Has(ppl, Find(ppl, mgr).managerId) THEN FALSE
     ELSE IF me.teamName # Empty THEN TRUE
     ELSE IF fuel = 0 THEN FALSE
     ELSE Find(ppl, mgr).teamName # Empty /\ ~isInsideParentTeam(ppl, mgr, fuel - 1)

\* manager id -> ids of its direct reports as rendered, for every person
\* that HierarchyTree can render (a person with a manager in the list)
childRowsOf(ppl) ==
  [id \in {q \in IdsOf(ppl) : Truthy(Find(ppl, q).managerId) /\ Has(ppl, Find(ppl, q).managerId)} |->
     IF \A k \in 1..Len(ppl) : ppl[k].managerId # id THEN <<>>
     ELSE idsOfSeq(HierarchyTreeRow(ppl, Find(ppl, id), isInsideParentTeam(ppl, id, Len(ppl))))]

\* ------------------------------------------------------------ actions
NoPerson ==
  [id |-> Empty, name |-> 0, title |-> Empty, department |-> Empty, location |-> Empty,
   managerId |-> Null, teamName |-> Empty,
   sortOrder |-> NoOrder, isTeamLead |-> FALSE, tier |-> NoTier]

OpRecord(op, id, arg, outcome, rec) ==
  [op |-> op, id |-> id, arg |-> arg, outcome |-> outcome, rec |-> rec]

\* the HierarchyTree components have not rendered the current list yet
StaleRows == [x \in {"stale"} |-> <<>>]

\* the useMemo values of OrgChart in the render that follows a state change
Rerender(ppl) ==
  /\ rootPeople' = idsOfSeq(rootPeopleOf(ppl))
  /\ effectiveTiers' = effectiveTiersOf(ppl)
  /\ childRows' = StaleRows

\* first render of OrgChart after App is constructed
Render ==
  /\ ~rendered
  /\ rendered' = TRUE
  /\ Rerender(people)
  /\ UNCHANGED <<people, prevPeople, lastOp, older, offList>>

\* the HierarchyTree / TeamGroup components render below OrgChart
RenderTrees ==
  /\ rendered
  /\ childRows = StaleRows
  /\ childRows' = childRowsOf(people)
  /\ UNCHANGED <<people, prevPeople, lastOp, rendered, rootPeople, effectiveTiers, older, offList>>

\* drop of card draggedId on card targetId
Move(draggedId, targetId) ==
  /\ rendered
  /\ Has(people, draggedId) /\ Has(people, targetId)
  /\ maxOrderOf(ChildrenOf(people, targetId), 1) + 1 <= MaxSortOrder
  /\ people' = handleMovePerson(people, people, draggedId, targetId)
  /\ prevPeople' = people
  /\ lastOp' = OpRecord("move", draggedId, targetId,
                        MoveOutcome(people, draggedId, targetId), NoPerson)
  /\ Rerender(people')
  /\ UNCHANGED <<rendered, older, offList>>

\* the list the handlers of the last render closed over
renderedPeople == IF queued = <<>> THEN people ELSE closure

\* a drop handled by the handleMovePerson of the last render while earlier
\* updaters are still queued: the checks read the list of that render,
\* the updater maps the list the queue has produced so far
DispatchMove(draggedId, targetId, maxQueued) ==
  /\ rendered
  /\ Len(queued) < maxQueued
  /\ Has(renderedPeople, draggedId) /\ Has(renderedPeople, targetId)
  /\ maxOrderOf(ChildrenOf(renderedPeople, targetId), 1) + 1 <= MaxSortOrder
  /\ people' = handleMovePerson(renderedPeople, people, draggedId, targetId)
  /\ prevPeople' = people
  /\ lastOp' = OpRecord("move", draggedId, targetId,
                        MoveOutcome(renderedPeople, draggedId, targetId), NoPerson)
  /\ closure' = renderedPeople
  /\ queued' = Append(queued, <<draggedId, targetId>>)
  /\ UNCHANGED <<rendered, rootPeople, effectiveTiers, childRows, older, appRest, prevApp, lastDoc,
                 storage, prevStorage, editingPerson, layout, connectors, schedule>>

\* React runs the queued updaters and renders App with their result
Flush ==
  /\ rendered
  /\ queued # <<>>
  /\ closure' = <<>>
  /\ queued' = <<>>
  /\ Rerender(people)
  /\ UNCHANGED <<people, prevPeople, lastOp, rendered, older, appRest, prevApp, lastDoc, storage,
                 prevStorage, editingPerson, layout, connectors, schedule>>

\* Save of the edit modal (handleSaveEdit -> handleUpdatePerson)
Update(updated) ==
  /\ rendered
  /\ Has(people, updated.id)
  /\ people' = handleUpdatePerson(people, updated)
  /\ prevPeople' = people
  /\ lastOp' = OpRecord("update", updated.id, Empty, UpdateOutcome(people, updated), updated)
  /\ Rerender(people')
  /\ UNCHANGED <<rendered, older, offList>>

\* what the edit modal can turn the record of id into: Primary Manager is
\* "No Manager" or any other person, department and tier are free
EditsOf(ppl, id, Depts, Tiers) ==
  { [Find(ppl, id) EXCEPT !.managerId = m, !.department = d, !.tier = t] :
      m \in {Null} \cup (IdsOf(ppl) \ {id}), d \in Depts, t \in Tiers }

Delete(id) ==
  /\ rendered
  /\ Has(people, id)
  /\ people' = handleDeletePerson(people, id)
  /\ prevPeople' = people
  /\ lastOp' = OpRecord("delete", id, Empty, "deleted", NoPerson)
  /\ Rerender(people')
  /\ UNCHANGED <<rendered, older, offList>>

\* crypto.randomUUID(): an id that no record carries or references; ids are
\* opaque, so the first unused one of the pool stands for any fresh id
FreshIds(ppl) ==
  LET unused == {k \in 1..MaxPeople :
                   IdOf[k] \notin (IdsOf(ppl) \cup {ppl[i].managerId : i \in 1..Len(ppl)})}
  IN {IdOf[k] : k \in {j \in unused : \A h \in unused : j <= h}}

\* Add of the add modal (handleAddNewPerson -> handleAddPerson)
Add(id, name, department, managerId) ==
  /\ rendered
  /\ id \in FreshIds(people)
  /\ newSortOrder(people, managerId) <= MaxSortOrder
  /\ LET person == newPersonRecord(people, id, name, department, managerId, FALSE)
     IN /\ people' = handleAddPerson(people, person)
        /\ lastOp' = OpRecord("add", id, Empty, "added", person)
  /\ prevPeople' = people
  /\ Rerender(people')
  /\ UNCHANGED <<rendered, older, offList>>

ReorderStep(personId, direction) ==
  /\ rendered
  /\ Has(people, personId)
  /\ people' = handleReorderPerson(people, personId, direction)
  /\ prevPeople' = people
  /\ lastOp' = OpRecord("reorder", personId, direction,
                        IF ReorderApplies(people, personId, direction) THEN "swapped" ELSE "kept",
                        NoPerson)
  /\ Rerender(people')
  /\ UNCHANGED <<rendered, offList>>

\* click on a "Move left" / "Move right" arrow
Reorder(personId, direction) ==
  /\ ReorderStep(personId, direction)
  /\ UNCHANGED older

\* the same click, remembering the call before it
ReorderTracked(personId, direction) ==
  /\ ReorderStep(personId, direction)
  /\ older' = [people |-> prevPeople, op |-> lastOp]

\* reader.onload of handleImportData on a chosen file
Import(doc) ==
  /\ rendered
  /\ people' = importPeople(doc, people)
  /\ AppBecomes(importApp(doc, AppNow))
  /\ prevPeople' = people
  /\ prevApp' = AppNow
  /\ lastDoc' = doc
  /\ lastOp' = OpRecord("import", Empty, doc.kind, importOutcome(doc), NoPerson)
  /\ Rerender(people')
  /\ UNCHANGED <<rendered, older, storage, prevStorage, editingPerson, layout, lines>>

\* --------------------------------------------------- initial states
\* Lines as mounted, before its first effect has run: no connector, an
\* empty cache, no timer and no frame pending
NoRun == [at |-> 0, by |-> "none", force |-> FALSE, count |-> 0, version |-> 0, scale |-> 0]
\* scaleAt, notifiedAt: when the scale last changed and when the observer
\* last notified (-1 = never); burst: the notifications since the last
\* debounce run; bursts, debounceRuns, cancelled: how many bursts began,
\* how many runs the debounce timer made, how many it lost to a cleanup;
\* covered: the notifications the last debounce run answered
\* burstAt: when the burst began; quiet: the time between the last
\* notification and the last debounce run
NoEvent == [scaleAt |-> 0 - 1, notifiedAt |-> 0 - 1, burst |-> 0, bursts |-> 0,
            debounceRuns |-> 0, cancelled |-> 0, covered |-> 0, burstAt |-> 0 - 1,
            quiet |-> 0 - 1, scaleChanges |-> 0]
NoDom == [nodes |-> {}, badges |-> {}, version |-> 0]
NoDrop == [centerX |-> 0, cardWidth |-> 0, attachSide |-> 1, total |-> 0, endX |-> <<>>]
LinesMounted ==
  /\ dom = NoDom
  /\ pathsData = <<>>
  /\ positionCache = <<>>
  /\ now = 0
  /\ timers = {}
  /\ frames = {}
  /\ debounceRef = 0
  /\ animationFrameRef = 0
  /\ prevScaleRef = InitialScale
  /\ scaleCleanup = FALSE
  /\ nextHandle = 1
  /\ lastRun = NoRun
  /\ lastEvent = NoEvent
  /\ queued = <<>>

\* sec, sup: the secondaryManagerIds and supportedIds of the persons that
\* carry one
InitLinked(list, app, store, sec, sup, drop) ==
  /\ supportDrop = drop
  /\ secondaryManagerIds = sec
  /\ supportedIds = sup
  /\ closure = <<>>
  /\ LinesMounted
  /\ AppIs(app)
  /\ prevApp = app
  /\ lastDoc = NoDoc
  /\ storage = store
  /\ prevStorage = store
  /\ editingPerson = NoPerson
  /\ nodeRects = <<>>
  /\ marginTop = <<>>
  /\ scale = InitialScale
  /\ people = list
  /\ prevPeople = <<>>
  /\ lastOp = OpRecord("none", Empty, Empty, "none", NoPerson)
  /\ rendered = FALSE
  /\ rootPeople = <<>>
  /\ effectiveTiers = <<>>
  /\ childRows = StaleRows
  /\ older = [people |-> <<>>, op |-> OpRecord("none", Empty, Empty, "none", NoPerson)]

\* handleEditClick: the edit modal opens on a copy of the person
EditClick(id) ==
  /\ rendered
  /\ Has(people, id)
  /\ editingPerson' = Find(people, id)
  /\ lastOp' = OpRecord("edit", id, Empty, "opened", NoPerson)
  /\ prevPeople' = people
  /\ prevApp' = AppNow
  /\ UNCHANGED <<people, rendered, rootPeople, effectiveTiers, childRows, older, appRest,
                 lastDoc, storage, prevStorage, layout, lines>>

\* the registry behind a field of the edit modal
registryOf(field) ==
  IF field = "department" THEN departments
  ELSE IF field = "location" THEN locations
  ELSE jobTitles

RegistryBecomes(field, registry) ==
  /\ departments' = IF field = "department" THEN registry ELSE departments
  /\ locations' = IF field = "location" THEN registry ELSE locations
  /\ jobTitles' = IF field = "title" THEN registry ELSE jobTitles
  /\ UNCHANGED <<departmentColors, locationColors, lineSettings, cardSettings>>

\* "New" next to a select of the edit modal, a name typed, then Enter
\* (handleAddNewDept / handleAddNewLoc / handleAddNewJobTitle) or the check
\* button, which also saves the edited copy
AddRegistryValue(field, name, viaButton) ==
  /\ rendered
  /\ editingPerson # NoPerson
  /\ name # Empty
  /\ Len(registryOf(field)) < MaxRegistry
  /\ LET updated == [editingPerson EXCEPT ![field] = name]
     IN /\ editingPerson' = updated
        /\ RegistryBecomes(field, Append(registryOf(field), name))
        /\ people' = IF viaButton THEN handleUpdatePerson(people, updated) ELSE people
        /\ lastOp' = OpRecord("addValue", updated.id, field, name, updated)
  /\ prevPeople' = people
  /\ prevApp' = AppNow
  /\ Rerender(people')
  /\ UNCHANGED <<rendered, older, lastDoc, storage, prevStorage, layout, lines>>

\* the bin next to a select of the edit modal, confirmed
DeleteRegistryValue(field) ==
  /\ rendered
  /\ editingPerson # NoPerson
  /\ Len(registryOf(field)) > 1
  /\ LET current == editingPerson[field]
         others == SelectSeq(registryOf(field), LAMBDA v : v # current)
     IN /\ RegistryBecomes(field, others)
        /\ editingPerson' = [editingPerson EXCEPT ![field] = IF others = <<>> THEN Empty ELSE others[1]]
        /\ lastOp' = OpRecord("deleteValue", editingPerson.id, field, current, editingPerson)
  /\ prevPeople' = people
  /\ prevApp' = AppNow
  /\ UNCHANGED <<people, rendered, rootPeople, effectiveTiers, childRows, older, lastDoc,
                 storage, prevStorage, layout, lines>>

\* a canvas control sets the zoom factor
Zoom(control, newScale) ==
  /\ rendered
  /\ scale' = newScale
  /\ lastOp' = OpRecord(control, Empty, Empty, "zoomed", NoPerson)
  /\ UNCHANGED <<people, prevPeople, rendered, rootPeople, effectiveTiers, childRows, older,
                 appRest, prevApp, lastDoc, storage, prevStorage, editingPerson, nodeRects,
                 marginTop, lines>>

Wheel(factor) == Zoom("wheel", wheelScale(scale, factor))
ZoomIn == Zoom("zoomIn", zoomInScale(scale))
ZoomOut == Zoom("zoomOut", zoomOutScale(scale))
ResetZoom == Zoom("resetZoom", InitialScale)
FitToScreen(containerWidth, containerHeight, contentWidth, contentHeight) ==
  Zoom("fitToScreen", fitScale(containerWidth, containerHeight, contentWidth, contentHeight))

\* the lazy initializer of the application state, run when App mounts
Load ==
  /\ lastOp.op = "boot"
  /\ people' = loadedPeople(storage)
  /\ AppBecomes(loadedApp(storage))
  /\ storage' = [k \in DOMAIN storage |-> safeParseLeaves(storage[k])]
  /\ prevStorage' = storage
  /\ prevPeople' = people
  /\ prevApp' = AppNow
  /\ lastOp' = OpRecord("load", Empty, Empty, "loaded", NoPerson)
  /\ UNCHANGED <<rendered, rootPeople, effectiveTiers, childRows, older, lastDoc, editingPerson,
                 layout, lines>>

\* the useEffect that writes the eight keys after a render
AutoSave ==
  /\ rendered
  /\ storage # savedStorage(people, AppNow)
  /\ storage' = savedStorage(people, AppNow)
  /\ prevStorage' = storage
  /\ UNCHANGED <<people, prevPeople, lastOp, rendered, rootPeople, effectiveTiers, childRows,
                 older, appRest, prevApp, lastDoc, editingPerson, layout, lines>>

InitChart(list, app, store, sec, sup) == InitLinked(list, app, store, sec, sup, NoDrop)
InitApp(list, app, store) == InitChart(list, app, store, <<>>, <<>>)

\* the list as loaded, every other field at its compiled-in default
InitWith(list) == InitApp(list, AppDefaults, EmptyStorage)

\* lists of n persons a, b, ... whose free fields range over the given sets
ListsOver(n, Mgrs, Depts, Orders, Leads, Names, Tiers) ==
  { [i \in 1..n |->
       [id |-> IdOf[i], name |-> f[i].name, title |-> JOB_TITLES[1],
        department |-> f[i].department, location |-> LOCATIONS[1],
        managerId |-> f[i].managerId, teamName |-> Empty, sortOrder |-> f[i].sortOrder,
        isTeamLead |-> f[i].isTeamLead, tier |-> f[i].tier]] :
    f \in [1..n -> [managerId : Mgrs, department : Depts, sortOrder : Orders,
                    isTeamLead : Leads, name : Names, tier : Tiers]] }

\* ------------------------------------------- the manager relation
ManagerIdOf(ppl, id) == IF Has(ppl, id) THEN Find(ppl, id).managerId ELSE Null

RECURSIVE ManagersWithin(_, _, _)
ManagersWithin(ppl, id, k) ==
  LET m == ManagerIdOf(ppl, id)
  IN IF k = 0 \/ ~Truthy(m) \/ ~Has(ppl, m) THEN {}
     ELSE {m} \cup ManagersWithin(ppl, m, k - 1)

TransitiveManagers(ppl, id) == ManagersWithin(ppl, id, Len(ppl))
TransitiveReports(ppl, id) == {r \in IdsOf(ppl) : id \in TransitiveManagers(ppl, r)}
Forest(ppl) == \A id \in IdsOf(ppl) : id \notin TransitiveManagers(ppl, id)

\* ------------------------------------------------------- Tier Aligner
\* positions are kept in units of 1/Px of a CSS pixel
Px == 2
tierGap == 24 * Px
MAX_PASSES == 8

MaxOf(S) == CHOOSE x \in S : \A y \in S : x >= y
MinOf(S) == CHOOSE x \in S : \A y \in S : x <= y

RECURSIVE SumOver(_, _)
SumOver(f, S) ==
  IF S = {} THEN 0 ELSE LET x == CHOOSE y \in S : TRUE IN f[x] + SumOver(f, S \ {x})

RECURSIVE Ascending(_)
Ascending(S) == IF S = {} THEN <<>> ELSE <<MinOf(S)>> \o Ascending(S \ {MinOf(S)})

\* the persons with a card (node-<id>) in the chart: the roots, the
\* department heads and everything HierarchyTree renders below them
nodeIds(ppl) ==
  LET roots == rootPeopleOf(ppl)
  IN UNION { {roots[k].id} \cup SeqToSet(getDescendants(roots[k].id, ppl).ids) :
             k \in 1..Len(roots) }

\* the data-tier-align wrappers around the card of id: its own, and the
\* HierarchyTree wrappers of its managers; the wrapper of a root card holds
\* that card only
wrappersAround(ppl, id) ==
  LET roots == rootPeopleOf(ppl)
  IN {id} \cup (TransitiveManagers(ppl, id) \ {roots[k].id : k \in 1..Len(roots)})

\* measureNode: top and bottom of the card in container coordinates
measureNode(rects, margins, ppl, id) ==
  LET top == rects[id].top + SumOver(margins, wrappersAround(ppl, id))
  IN [top |-> top, bottom |-> top + rects[id].height]

\* 3a) push the cards of one tier down to the lowest of them
alignGroup(rects, margins, ppl, group) ==
  LET maxTop == MaxOf({measureNode(rects, margins, ppl, id).top : id \in group})
      delta(id) == maxTop - measureNode(rects, margins, ppl, id).top
      moved == {id \in group : 2 * delta(id) > Px}
  IN [margins |-> [w \in DOMAIN margins |-> IF w \in moved THEN margins[w] + delta(w) ELSE margins[w]],
      delta |-> SumOver([id \in moved |-> delta(id)], moved)]

\* 3b) that leaves no gap between a tier and the tier before it
enforceOrderTouching(rects, margins, ppl, group, prevGroup) ==
  LET prevMaxBottom == MaxOf({measureNode(rects, margins, ppl, id).bottom : id \in prevGroup})
      curMinTop == MinOf({measureNode(rects, margins, ppl, id).top : id \in group})
      needed == prevMaxBottom - curMinTop
  IN IF 2 * needed > Px
     THEN [margins |-> [w \in DOMAIN margins |-> IF w \in group THEN margins[w] + needed ELSE margins[w]],
           delta |-> needed * Cardinality(group)]
     ELSE [margins |-> margins, delta |-> 0]

\* 3b) push a whole tier below the bottom of the tier before it
enforceOrder(rects, margins, ppl, group, prevGroup) ==
  LET prevMaxBottom == MaxOf({measureNode(rects, margins, ppl, id).bottom : id \in prevGroup})
      curMinTop == MinOf({measureNode(rects, margins, ppl, id).top : id \in group})
      needed == prevMaxBottom + tierGap - curMinTop
  IN IF 2 * needed > Px
     THEN [margins |-> [w \in DOMAIN margins |-> IF w \in group THEN margins[w] + needed ELSE margins[w]],
           delta |-> needed * Cardinality(group)]
     ELSE [margins |-> margins, delta |-> 0]

tierGroup(tiers, nodes, tier) == {id \in nodes : tiers[id] = tier}

\* one pass over the tiers from sortedTiers[i] on
RECURSIVE alignPass(_, _, _, _, _, _, _)
alignPass(rects, margins, ppl, tiers, sortedTiers, i, totalDelta) ==
  IF i > Len(sortedTiers) THEN [margins |-> margins, delta |-> totalDelta]
  ELSE LET nodes == DOMAIN margins
           group == tierGroup(tiers, nodes, sortedTiers[i])
           a == IF Cardinality(group) > 1 THEN alignGroup(rects, margins, ppl, group)
                ELSE [margins |-> margins, delta |-> 0]
           b == IF i > 1
                THEN enforceOrder(rects, a.margins, ppl, group,
                                  tierGroup(tiers, nodes, sortedTiers[i - 1]))
                ELSE [margins |-> a.margins, delta |-> 0]
       IN alignPass(rects, b.margins, ppl, tiers, sortedTiers, i + 1, totalDelta + a.delta + b.delta)

RECURSIVE alignFrom(_, _, _, _, _, _)
alignFrom(rects, margins, ppl, tiers, sortedTiers, pass) ==
  IF pass >= MAX_PASSES THEN margins
  ELSE LET r == alignPass(rects, margins, ppl, tiers, sortedTiers, 1, 0)
       IN IF 2 * r.delta < Px THEN r.margins
          ELSE alignFrom(rects, r.margins, ppl, tiers, sortedTiers, pass + 1)

\* the margins the effect leaves: all reset to 0px, then up to MAX_PASSES
\* passes
alignTiers(rects, ppl, tiers) ==
  LET nodes == nodeIds(ppl)
      sortedTiers == Ascending({tiers[id] : id \in nodes})
  IN alignFrom(rects, [w \in nodes |-> 0], ppl, tiers, sortedTiers, 0)

\* the browser lays the rendered tree out: every card gets a rectangle
Layout(rects) ==
  /\ rendered
  /\ lastOp.op = "none"
  /\ DOMAIN rects = nodeIds(people)
  /\ nodeRects' = rects
  /\ marginTop' = [w \in nodeIds(people) |-> 0]
  /\ lastOp' = OpRecord("layout", Empty, Empty, "laid out", NoPerson)
  /\ UNCHANGED <<people, prevPeople, rendered, rootPeople, effectiveTiers, childRows, older,
                 appRest, prevApp, lastDoc, storage, prevStorage, editingPerson, scale, lines>>

\* the requestAnimationFrame callback of the tier alignment effect
AlignTiers ==
  /\ lastOp.op = "layout"
  /\ marginTop' = alignTiers(nodeRects, people, effectiveTiers)
  /\ lastOp' = OpRecord("align", Empty, Empty, "aligned", NoPerson)
  /\ UNCHANGED <<people, prevPeople, rendered, rootPeople, effectiveTiers, childRows, older,
                 appRest, prevApp, lastDoc, storage, prevStorage, editingPerson, nodeRects,
                 scale, lines>>

\* ------------------------------------------------- the rendered document
\* How many cards the composer renders for id: a card per entry of the root
\* row; for a department head, a HierarchyTree per entry of allDeptNames
\* that equals its department key; below a head, the rows of HierarchyTree
\* and TeamGroup.  A person no root reaches has no card.
RECURSIVE timesRendered(_, _, _, _)
timesRendered(ppl, allDeptNames, id, fuel) ==
  LET me == Find(ppl, id)
      roots == idsOfSeq(rootPeopleOf(ppl))
  IN IF Occurrences(roots, id) > 0 THEN Occurrences(roots, id)
     ELSE IF fuel = 0 THEN 0
     ELSE LET mgr == Find(ppl, me.managerId)
          IN IF Occurrences(roots, mgr.id) > 0
             THEN Occurrences(allDeptNames, deptNameOf(me))
             ELSE timesRendered(ppl, allDeptNames, mgr.id, fuel - 1)
                  * Occurrences(idsOfSeq(HierarchyTreeRow(ppl, mgr,
                                  isInsideParentTeam(ppl, mgr.id, Len(ppl)))), id)

\* const deptHeads = rootPeople.flatMap(root => getDirectReports(root.id))
deptHeadsOf(ppl) ==
  LET roots == rootPeopleOf(ppl)
  IN Flatten([k \in 1..Len(roots) |-> SortPeople(ChildrenOf(ppl, roots[k].id))])

\* the elements React commits for the list: node-<id> for every rendered
\* card, dept-badge-<name> for every department row that has heads
documentOf(ppl, allDeptNames, version) ==
  LET heads == deptHeadsOf(ppl)
  IN [nodes |-> {id \in IdsOf(ppl) : timesRendered(ppl, allDeptNames, id, Len(ppl)) > 0},
      badges |-> {allDeptNames[k] : k \in {j \in 1..Len(allDeptNames) :
                     \E h \in 1..Len(heads) : deptNameOf(heads[h]) = allDeptNames[j]}},
      version |-> version]

\* ------------------------------------------------- Connector Router
\* Lines.tsx.  A NodePosition is a rectangle read from the document and
\* divided by the scale; the model keeps what tells two measurements
\* apart: the element, the scale of the closure that measured it and the
\* version of the document it was read from.
NodePosition(nodeId, sc, version) == [id |-> nodeId, scale |-> sc, version |-> version]
\* getNodePosition / getBadgePosition returned null
NoPosition == [id |-> Empty, scale |-> 0, version |-> 0 - 1]

\* `${nodeId}-${scale}`
cacheKey(nodeId, sc) == <<nodeId, sc>>

\* getNodePosition that takes the cached entry whatever forceRefresh says
getNodePositionCached(cache, d, sc, nodeId, forceRefresh) ==
  IF cacheKey(nodeId, sc) \in DOMAIN cache THEN cache[cacheKey(nodeId, sc)]
  ELSE IF nodeId \notin d.nodes THEN NoPosition
  ELSE NodePosition(nodeId, sc, d.version)

\* getNodePosition: the position it returns
getNodePosition(cache, d, sc, nodeId, forceRefresh) ==
  IF ~forceRefresh /\ cacheKey(nodeId, sc) \in DOMAIN cache THEN cache[cacheKey(nodeId, sc)]
  ELSE IF nodeId \notin d.nodes THEN NoPosition
  ELSE NodePosition(nodeId, sc, d.version)

\* getBadgePosition (never cached)
getBadgePosition(d, deptName) ==
  IF deptName \notin d.badges THEN NoPosition ELSE NodePosition(deptName, 0, d.version)

\* the cache after the calls of getNodePosition for the ids asked
cacheAfter(cache, d, sc, asked, forceRefresh) ==
  LET fresh == {id \in asked : id \in d.nodes /\ (forceRefresh \/ cacheKey(id, sc) \notin DOMAIN cache)}
  IN [k \in DOMAIN cache \cup {cacheKey(id, sc) : id \in fresh} |->
        IF k[1] \in fresh /\ k[2] = sc THEN NodePosition(k[1], sc, d.version) ELSE cache[k]]

\* connectionsByManager: its keys in insertion order, and one entry
connectionKeys(ppl) ==
  LET managed == SelectSeq(ppl, LAMBDA p : Truthy(p.managerId))
  IN FirstSeen([i \in 1..Len(managed) |-> managed[i].managerId])
connectionsOf(ppl, mgrId) == idsOfSeq(SelectSeq(ppl, LAMBDA p : p.managerId = mgrId))

\* one entry of newPaths: its key, the ids it ends at and the positions
\* its geometry was computed from
PathData(key, to, uses) == [key |-> key, to |-> to, uses |-> uses \ {NoPosition}]

\* childIds with no filter on department heads
allChildren(childIds, deptHeadIds) == childIds
\* childIds.filter(id => !deptHeadIds.has(id))
withoutDeptHeads(childIds, deptHeadIds) == SelectSeq(childIds, LAMBDA id : id \notin deptHeadIds)

\* person.secondaryManagerIds, or [] where the field is absent
secondaryOf(sec, id) == IF id \in DOMAIN sec THEN sec[id] ELSE <<>>
supportedOf(sup, id) == IF id \in DOMAIN sup THEN sup[id] ELSE <<>>

\* calculatePaths(forceRefresh): newPaths and the cache it leaves
calculatePaths(ppl, sec, sup, deptHeads, d, oldCache, sc, forceRefresh) ==
  LET \* if (forceRefresh) positionCacheRef.current.clear()
      cache == IF forceRefresh THEN <<>> ELSE oldCache
      pos(id) == getNodePosition(cache, d, sc, id, forceRefresh)
      roots == SelectSeq(ppl, LAMBDA p : ~Truthy(p.managerId) \/ ~Has(ppl, p.managerId))
      execPos == IF Len(roots) > 0 THEN pos(roots[1].id) ELSE NoPosition
      deptHeadIds == {deptHeads[k].id : k \in 1..Len(deptHeads)}
      badged == SelectSeq(deptHeads, LAMBDA h : getBadgePosition(d, h.department) # NoPosition)
      uniqueDepts == FirstSeen([i \in 1..Len(badged) |-> badged[i].department])
      \* 1. executive to department badges
      execToDepts ==
        IF execPos # NoPosition /\ Len(uniqueDepts) > 0
        THEN <<PathData(<<"exec-to-depts">>, uniqueDepts,
                        {execPos} \cup {getBadgePosition(d, uniqueDepts[k]) : k \in 1..Len(uniqueDepts)})>>
        ELSE <<>>
      \* 2. department badges to department heads
      linked == SelectSeq(deptHeads, LAMBDA h : getBadgePosition(d, h.department) # NoPosition
                                                 /\ pos(h.id) # NoPosition)
      badgeToHead ==
        [k \in 1..Len(linked) |->
           PathData(<<"badge-to-head", linked[k].id>>, <<linked[k].id>>,
                    {getBadgePosition(d, linked[k].department), pos(linked[k].id)})]
      \* 3. manager to direct reports
      mgrIds == SelectSeq(connectionKeys(ppl), LAMBDA m : pos(m) # NoPosition)
      validChildren(m) ==
        SelectSeq(withoutDeptHeads(connectionsOf(ppl, m), deptHeadIds), LAMBDA id : pos(id) # NoPosition)
      drawn == SelectSeq(mgrIds, LAMBDA m : Len(validChildren(m)) > 0)
      trees ==
        [k \in 1..Len(drawn) |->
           PathData(<<"tree", drawn[k]>>, validChildren(drawn[k]),
                    {pos(drawn[k])} \cup {pos(validChildren(drawn[k])[j]) :
                                            j \in 1..Len(validChildren(drawn[k]))})]
      \* 4. secondary manager lines: person.secondaryManagerIds.forEach
      secondaryOfPerson(p) ==
        LET shown == SelectSeq(secondaryOf(sec, p.id),
                               LAMBDA m : pos(p.id) # NoPosition /\ pos(m) # NoPosition)
        IN [k \in 1..Len(shown) |->
              PathData(<<"secondary", p.id, shown[k]>>, <<shown[k]>>, {pos(p.id), pos(shown[k])})]
      secondary == Flatten([i \in 1..Len(ppl) |-> secondaryOfPerson(ppl[i])])
      \* 5. support lines: one path per supporter, to one target or "multi"
      supportOfPerson(p) ==
        LET targets == SelectSeq(supportedOf(sup, p.id), LAMBDA t : pos(t) # NoPosition)
        IN IF pos(p.id) = NoPosition \/ Len(targets) = 0 THEN <<>>
           ELSE <<PathData(<<"support", p.id, IF Len(targets) = 1 THEN targets[1] ELSE "multi">>,
                           targets,
                           {pos(p.id)} \cup {pos(targets[j]) : j \in 1..Len(targets)})>>
      supporters == FirstSeen(idsOfSeq(SelectSeq(ppl, LAMBDA p : Len(supportedOf(sup, p.id)) > 0)))
      support == Flatten([k \in 1..Len(supporters) |-> supportOfPerson(Find(ppl, supporters[k]))])
      asked ==
        (IF Len(roots) > 0 THEN {roots[1].id} ELSE {})
        \cup deptHeadIds
        \cup SeqToSet(connectionKeys(ppl))
        \cup UNION {SeqToSet(withoutDeptHeads(connectionsOf(ppl, mgrIds[k]), deptHeadIds)) :
                      k \in 1..Len(mgrIds)}
        \cup UNION {{ppl[i].id} \cup SeqToSet(secondaryOf(sec, ppl[i].id)) :
                      i \in {j \in 1..Len(ppl) : Len(secondaryOf(sec, ppl[j].id)) > 0}}
        \cup UNION {{ppl[i].id} \cup (IF pos(ppl[i].id) = NoPosition THEN {}
                                      ELSE SeqToSet(supportedOf(sup, ppl[i].id))) :
                      i \in {j \in 1..Len(ppl) : Len(supportedOf(sup, ppl[j].id)) > 0}}
  IN [paths |-> execToDepts \o badgeToHead \o trees \o secondary \o support,
      cache |-> cacheAfter(cache, d, sc, asked, forceRefresh)]

\* the x at which a support line drops into its target, in quarter pixels:
\*   baseOffset = cardWidth * 0.25
\*   indexOffset = total > 1 ? (index - (total - 1) / 2) * spreadWidth : 0
\*   endX = target.pos.centerX + baseOffset * attachSide + indexOffset
Quarter == 4
spreadWidth == 20
supportEndX(centerX, cardWidth, attachSide, indexAmongTargetLinks, totalLinksToTarget) ==
  LET baseOffset == cardWidth
      indexOffset == IF totalLinksToTarget > 1
                     THEN (2 * indexAmongTargetLinks - (totalLinksToTarget - 1))
                            * (spreadWidth \div 2) * Quarter
                     ELSE 0
  IN Quarter * centerX + baseOffset * attachSide + indexOffset

\* calculatePaths works out the drops of the lines that end at one target
DropSupportLines ==
  /\ supportDrop.endX = <<>>
  /\ supportDrop' =
       [supportDrop EXCEPT !.endX =
          [k \in 1..supportDrop.total |->
             supportEndX(supportDrop.centerX, supportDrop.cardWidth, supportDrop.attachSide,
                         k - 1, supportDrop.total)]]
  /\ UNCHANGED <<people, prevPeople, lastOp, rendered, rootPeople, effectiveTiers, childRows, older,
                 appRest, prevApp, lastDoc, storage, prevStorage, editingPerson, layout,
                 secondaryManagerIds, supportedIds, dom, pathsData, positionCache, schedule,
                 closure, queued>>

\* ------------------------------------------------- Lines: effects and timers
\* Times are in milliseconds.  The clock advances in steps of TickMs; a
\* timer runs at the first step at or after its delay, a frame callback at
\* the first display frame after its request.
TickMs == 8
\* the display refreshes every 16 ms
FrameMs == 16
\* setTimeout(() => calculatePaths(forceRefresh), 16)
DebounceMs == 16
\* setTimeout(() => calculatePaths(true), 50)
InitialMs == 50
\* const duration = 320
duration == 320
\* debouncedCalculate(): the default of its parameter
defaultForce == FALSE
\* debouncedCalculate(true) in handleResize and in the observer callback
observerForce == TRUE

Timer(handle, kind, due, force) == [handle |-> handle, kind |-> kind, due |-> due, force |-> force]
\* a requestAnimationFrame callback (animate) and the startTime it closes over
Frame(handle, requestedAt, startTime) ==
  [handle |-> handle, at |-> ((requestedAt \div FrameMs) + 1) * FrameMs, startTime |-> startTime]

\* clearTimeout / cancelAnimationFrame: a handle that is null, unknown or
\* already run is ignored
\* a clearTimeout that is left out
keepTimeout(pending, handle) == pending
clearTimeout(pending, handle) == {t \in pending : t.handle # handle}

\* one run of calculatePaths by the callback `by`
RunCalculatePaths(by, cache, forceRefresh) ==
  LET r == calculatePaths(people, secondaryManagerIds, supportedIds, deptHeadsOf(people),
                          dom, cache, scale, forceRefresh)
  IN /\ pathsData' = r.paths
     /\ positionCache' = r.cache
     /\ lastRun' = [at |-> now, by |-> by, force |-> forceRefresh, count |-> lastRun.count + 1,
                    version |-> dom.version, scale |-> scale]

\* the timers left by the cleanups of the initial-calculation effect
\* (clearTimeout(timeoutId)) and of the observer effect
\* (clearTimeout(debounceRef.current)), which run whenever calculatePaths
\* is a new function, and the timer the initial-calculation effect then sets
afterEffects(pending, handle) ==
  clearTimeout({t \in pending : t.kind # "initial"}, debounceRef)
    \cup {Timer(handle, "initial", now + InitialMs, TRUE)}

cancelAnimationFrame(pending, handle) == {f \in pending : f.handle # handle}

\* history: a pending debounce timer was cancelled by the observer cleanup
Cancelled(pending) ==
  IF \E t \in pending : t.kind = "debounce"
  THEN [lastEvent EXCEPT !.cancelled = @ + 1, !.burst = 0] ELSE lastEvent

\* OrgChart and Lines mount: first render, commit, then the effects of Lines
MountChart ==
  /\ ~rendered
  /\ rendered' = TRUE
  /\ Rerender(people)
  /\ closure' = <<>>
  /\ queued' = <<>>
  /\ dom' = documentOf(people, departments, dom.version + 1)
  /\ timers' = afterEffects(timers, nextHandle)
  /\ nextHandle' = nextHandle + 1
  /\ UNCHANGED <<people, prevPeople, lastOp, older, appRest, prevApp, lastDoc, storage,
                 prevStorage, editingPerson, layout, secondaryManagerIds, supportedIds, supportDrop, pathsData,
                 positionCache, now, frames, debounceRef, animationFrameRef, prevScaleRef,
                 scaleCleanup, lastRun, lastEvent>>

\* time passes while no callback is due
Tick(maxTime) ==
  /\ rendered
  /\ now + TickMs <= maxTime
  /\ \A t \in timers : t.due > now
  /\ \A f \in frames : f.at > now
  /\ now' = now + TickMs
  /\ UNCHANGED <<people, prevPeople, lastOp, rendered, rootPeople, effectiveTiers, childRows, older,
                 appRest, prevApp, lastDoc, storage, prevStorage, editingPerson, layout, connectors,
                 timers, frames, debounceRef, animationFrameRef, prevScaleRef, scaleCleanup,
                 nextHandle, lastRun, lastEvent, closure, queued>>

\* a setTimeout callback of Lines runs
TimerFires ==
  \E t \in timers :
    /\ t.due <= now
    /\ timers' = timers \ {t}
    /\ RunCalculatePaths(t.kind, positionCache, t.force)
    /\ lastEvent' = IF t.kind = "debounce"
                    THEN [lastEvent EXCEPT !.debounceRuns = @ + 1, !.covered = lastEvent.burst,
                                           !.burst = 0, !.quiet = now - lastEvent.notifiedAt]
                    ELSE lastEvent
    /\ UNCHANGED <<people, prevPeople, lastOp, rendered, rootPeople, effectiveTiers, childRows, older,
                   appRest, prevApp, lastDoc, storage, prevStorage, editingPerson, layout,
                   secondaryManagerIds, supportedIds, supportDrop, dom, now, frames, debounceRef,
                   animationFrameRef, prevScaleRef, scaleCleanup, nextHandle, closure, queued>>

\* the document changes under the observer (a margin set by the aligner, a
\* class, a child list) or the window is resized: debouncedCalculate(true)
Notify(maxVersion) ==
  /\ rendered
  /\ dom.version < maxVersion
  /\ dom' = [dom EXCEPT !.version = @ + 1]
  /\ timers' = clearTimeout(timers, debounceRef)
                 \cup {Timer(nextHandle, "debounce", now + DebounceMs, observerForce)}
  /\ debounceRef' = nextHandle
  /\ nextHandle' = nextHandle + 1
  /\ lastEvent' = [lastEvent EXCEPT !.notifiedAt = now, !.burst = @ + 1,
                                    !.bursts = IF lastEvent.burst = 0 THEN @ + 1 ELSE @,
                                    !.burstAt = IF lastEvent.burst = 0 THEN now ELSE @]
  /\ UNCHANGED <<people, prevPeople, lastOp, rendered, rootPeople, effectiveTiers, childRows, older,
                 appRest, prevApp, lastDoc, storage, prevStorage, editingPerson, layout,
                 secondaryManagerIds, supportedIds, supportDrop, pathsData, positionCache, now, frames,
                 animationFrameRef, prevScaleRef, scaleCleanup, lastRun, closure, queued>>

\* a canvas control changes the scale and Lines renders with it: the
\* cleanups of the three effects, then the effects; the scale effect finds
\* prevScaleRef.current !== scale and starts the animation loop
ScaleChange(newScale, maxChanges) ==
  /\ rendered
  /\ newScale # scale
  /\ lastEvent.scaleChanges < maxChanges
  /\ scale' = newScale
  /\ prevScaleRef' = newScale
  /\ positionCache' = <<>>
  /\ timers' = afterEffects(timers, nextHandle)
  /\ frames' = cancelAnimationFrame(frames, animationFrameRef) \cup {Frame(nextHandle + 1, now, now)}
  /\ animationFrameRef' = nextHandle + 1
  /\ nextHandle' = nextHandle + 2
  /\ scaleCleanup' = TRUE
  /\ lastEvent' = [Cancelled(timers) EXCEPT !.scaleAt = now, !.scaleChanges = @ + 1]
  /\ UNCHANGED <<people, prevPeople, lastOp, rendered, rootPeople, effectiveTiers, childRows, older,
                 appRest, prevApp, lastDoc, storage, prevStorage, editingPerson, nodeRects,
                 marginTop, secondaryManagerIds, supportedIds, supportDrop, dom, pathsData, now, debounceRef,
                 lastRun, closure, queued>>

\* what a render of Lines with a new person list (same scale) does to its
\* callbacks: the cleanups of the three effects run (the one of the scale
\* effect only if its last run returned one), the initial-calculation
\* effect sets its timer, the scale effect finds prevScaleRef.current ===
\* scale and returns nothing
LinesRerender(ppl) ==
  /\ closure' = <<>>
  /\ queued' = <<>>
  /\ dom' = documentOf(ppl, departments, dom.version + 1)
  /\ timers' = afterEffects(timers, nextHandle)
  /\ nextHandle' = nextHandle + 1
  /\ frames' = IF scaleCleanup THEN cancelAnimationFrame(frames, animationFrameRef) ELSE frames
  /\ scaleCleanup' = FALSE
  /\ lastEvent' = Cancelled(timers)
  /\ UNCHANGED <<secondaryManagerIds, supportedIds, supportDrop, pathsData, positionCache, now, debounceRef,
                 animationFrameRef, prevScaleRef, lastRun>>

\* a card is deleted while the chart is on screen
DeleteShown(id) ==
  /\ rendered
  /\ Has(people, id)
  /\ people' = handleDeletePerson(people, id)
  /\ prevPeople' = people
  /\ lastOp' = OpRecord("delete", id, Empty, "deleted", NoPerson)
  /\ Rerender(people')
  /\ LinesRerender(people')
  /\ UNCHANGED <<rendered, older, appRest, prevApp, lastDoc, storage, prevStorage, editingPerson,
                 layout>>

\* the display frame for which animate was requested
FrameFires ==
  \E f \in frames :
    /\ f.at <= now
    /\ RunCalculatePaths("frame", positionCache, TRUE)
    /\ IF now - f.startTime < duration
       THEN /\ frames' = (frames \ {f}) \cup {Frame(nextHandle, now, f.startTime)}
            /\ animationFrameRef' = nextHandle
            /\ nextHandle' = nextHandle + 1
       ELSE /\ frames' = frames \ {f}
            /\ UNCHANGED <<animationFrameRef, nextHandle>>
    /\ UNCHANGED <<people, prevPeople, lastOp, rendered, rootPeople, effectiveTiers, childRows, older,
                   appRest, prevApp, lastDoc, storage, prevStorage, editingPerson, layout,
                   secondaryManagerIds, supportedIds, supportDrop, dom, now, timers, debounceRef, prevScaleRef,
                   scaleCleanup, lastEvent, closure, queued>>

\* ------------------------------------------------- specifications
\* no handler has run yet on the loaded list
Untouched == lastOp.op = "none"

\* The application from the compiled-in INITIAL_PEOPLE (constants.ts: []),
\* driven through its five mutation entry points.
Init == InitWith(<<>>)

Next ==
  \/ Render
  \/ \E id \in Ids, m \in {Null} \cup IdsOf(people) : Add(id, 1, "Executive", m)
  \/ \E id \in IdsOf(people) :
       \E u \in EditsOf(people, id, {"Executive"}, {NoTier}) : Update(u)
  \/ \E id \in IdsOf(people) : Delete(id)
  \/ \E a \in IdsOf(people), t \in IdsOf(people) : Move(a, t)
  \/ \E id \in IdsOf(people), dir \in {"left", "right"} : Reorder(id, dir)

Spec == Init /\ [][Next]_vars

\* Drag and drop only, from any stored list whose manager relation is a
\* forest (safeParse('org-chart-people') or an import).
ForestLists ==
  {l \in ListsOver(MaxPeople, {Null, Empty} \cup Ids, DeptChoices, {NoOrder}, {FALSE}, {1}, {NoTier}) :
     Forest(l)}

InitMove == \E l \in ForestLists : InitWith(l)

NextMove ==
  \/ Render
  \/ \E a \in IdsOf(people), t \in IdsOf(people) : Move(a, t)

SpecMove == InitMove /\ [][NextMove]_vars

\* One drop on a stored list of MoveListLen persons: forests with every mix
\* of departments (a missing department included), and lists with manager
\* cycles.
MoveIds == {IdOf[i] : i \in 1..MoveListLen}

MoveOnceLists ==
  {l \in ListsOver(MoveListLen, {Null} \cup MoveIds, DeptChoices \cup {Empty},
                   {NoOrder}, {FALSE}, {1}, {NoTier}) : Forest(l)}
  \cup
  {l \in ListsOver(MoveListLen, {Null} \cup MoveIds, {"Executive"},
                   {NoOrder}, {FALSE}, {1}, {NoTier}) : ~Forest(l)}

InitMoveOnce == \E l \in MoveOnceLists : InitWith(l)

NextMoveOnce ==
  \/ Render
  \/ Untouched /\ \E a \in IdsOf(people), t \in IdsOf(people) : Move(a, t)

SpecMoveOnce == InitMoveOnce /\ [][NextMoveOnce]_vars

\* The Hierarchy Deriver on any stored list: every form of "no manager",
\* dangling references, cycles, and manual tiers.
DeriveLists ==
  ListsOver(MaxPeople, NoManager \cup {GhostId} \cup Ids, {"Executive"},
            {NoOrder}, {FALSE}, {1}, {NoTier} \cup 0..MaxTier)

InitDerive == \E l \in DeriveLists : InitWith(l)

NextDerive == Render

SpecDerive == InitDerive /\ [][NextDerive]_vars

\* Updates only (the edit modal's Save), from any stored forest.
InitUpdate == \E l \in ForestLists : InitWith(l)

NextUpdate ==
  \/ Render
  \/ \E id \in IdsOf(people) :
       \E u \in EditsOf(people, id, DeptChoices, {NoTier}) : Update(u)

SpecUpdate == InitUpdate /\ [][NextUpdate]_vars

\* Deletions only, from any stored list (dangling references and cycles
\* included).
DeleteLists ==
  ListsOver(MaxPeople, {Null, GhostId} \cup Ids, DeptChoices, {NoOrder, 0}, {FALSE}, {1}, {NoTier})

InitDelete == \E l \in DeleteLists : InitWith(l)

NextDelete ==
  \/ Render
  \/ \E id \in IdsOf(people) : Delete(id)

SpecDelete == InitDelete /\ [][NextDelete]_vars

\* One reorder on a stored list: sortOrder missing, colliding or sparse,
\* team leads, equal names, and the three sibling groups "no manager"
\* (null or ''), and "manager zz".
ReorderLists ==
  ListsOver(MaxPeople, {Null, Empty, GhostId}, {"Executive"},
            {NoOrder, 0, MaxSortOrder}, BOOLEAN, {1, 2}, {NoTier})

InitReorder == \E l \in ReorderLists : InitWith(l)

NextReorder ==
  \/ Render
  \/ Untouched /\ \E id \in IdsOf(people), dir \in {"left", "right"} : Reorder(id, dir)

SpecReorder == InitReorder /\ [][NextReorder]_vars

\* Reorder clicks in any sequence on a stored sibling row (sortOrder
\* missing or colliding, team leads, equal names), each click remembering
\* the one before.
ReorderTwiceLists ==
  ListsOver(MaxPeople, {Null, Empty}, {"Executive"}, {NoOrder, 0, 1}, BOOLEAN, {1}, {NoTier})

InitReorderTwice == \E l \in ReorderTwiceLists : InitWith(l)

NextReorderTwice ==
  \/ Render
  \/ \E id \in IdsOf(people), dir \in {"left", "right"} : ReorderTracked(id, dir)

SpecReorderTwice == InitReorderTwice /\ [][NextReorderTwice]_vars

\* One reorder click below a department head b (report of the root a) whose
\* ComposeReports direct reports carry every mix of team and department.
ComposeLists ==
  { <<[NoPerson EXCEPT !.id = "a", !.name = 1, !.department = "Executive"],
      [NoPerson EXCEPT !.id = "b", !.name = 1, !.department = "Executive",
                       !.managerId = "a", !.teamName = bt]>>
    \o [i \in 1..ComposeReports |->
          [NoPerson EXCEPT !.id = IdOf[i + 2], !.name = 1, !.managerId = "b",
                           !.department = f[i].department, !.teamName = f[i].teamName,
                           !.sortOrder = f[i].sortOrder]] :
    bt \in {Empty, "Alpha"},
    f \in [1..ComposeReports -> [department : DeptChoices, teamName : {Empty, "Alpha", "Beta"},
                                 sortOrder : {NoOrder, 0}]] }

InitCompose == \E l \in ComposeLists : InitWith(l)

\* the reorder arrows are part of the rendered trees
NextCompose ==
  \/ Render
  \/ RenderTrees
  \/ /\ Untouched /\ childRows # StaleRows
     /\ \E id \in DOMAIN childRows, dir \in {"left", "right"} : Reorder(id, dir)

SpecCompose == InitCompose /\ [][NextCompose]_vars

\* One placement (an add, or a drop) on a stored list whose sortOrder
\* values are present, colliding or missing.
PlaceLists ==
  {l \in ListsOver(MaxPeople - 1, {Null, "a"}, {"Executive"}, {NoOrder} \cup 0..(MaxSortOrder - 1),
                   {FALSE}, {1}, {NoTier})
          \cup
          ListsOver(MaxPeople, {Null, "a"}, {"Executive"}, {NoOrder} \cup 0..(MaxSortOrder - 1),
                    {FALSE}, {1}, {NoTier}) : Forest(l)}

InitPlace == \E l \in PlaceLists : InitWith(l)

NextPlace ==
  \/ Render
  \/ Untouched /\ \E id \in Ids, m \in {Null} \cup IdsOf(people) : Add(id, 1, "Executive", m)
  \/ Untouched /\ \E a \in IdsOf(people), t \in IdsOf(people) : Move(a, t)

SpecPlace == InitPlace /\ [][NextPlace]_vars

\* One import into an application that holds the defaults or an edited
\* state (CustomApp), with or without people.
CustomApp ==
  AppRecord(<<"Executive", "Sales", "Legal">>, <<"UK", "Hong Kong", "Paris">>,
            <<"CEO", "Director", "Clerk">>,
            [DEPT_COLORS EXCEPT !["Sales"] = "rose"],
            [l \in {"UK"} |-> "cyan"],
            [DEFAULT_LINE_SETTINGS EXCEPT !.secondaryStyle = "dashed"],
            [DEFAULT_CARD_SETTINGS EXCEPT !.shadow = "sm"])

\* what an exported file of another chart carries
ImportedApp ==
  AppRecord(<<"Ops", "Executive">>, <<"Berlin">>, <<"Analyst">>,
            [d \in {"Ops"} |-> "teal"], [l \in {"Berlin"} |-> "blue"],
            [DEFAULT_LINE_SETTINGS EXCEPT !.secondaryStyle = "solid"],
            [DEFAULT_CARD_SETTINGS EXCEPT !.padding = "compact"])

ImportedPerson(i, department, location) ==
  [NoPerson EXCEPT !.id = IdOf[i], !.name = 1, !.title = JOB_TITLES[1],
                   !.department = department, !.location = location]

LegacyDocs ==
  { Doc("array",
        Field("value", [i \in 1..ImportLen |-> ImportedPerson(i, f[i].department, f[i].location)]),
        NoFields) :
    f \in [1..ImportLen -> [department : {"Executive", "Ops", Empty},
                            location : {"UK", "Berlin", Empty}]] }

FieldNames ==
  {"departments", "locations", "jobTitles", "departmentColors", "locationColors",
   "lineSettings", "cardSettings"}

SnapshotDocs ==
  { Doc("object",
        Field(pt, IF pt = "value" THEN <<ImportedPerson(1, "Ops", "Berlin")>> ELSE <<>>),
        [n \in FieldNames |-> Field(t[n], IF t[n] = "value" THEN ImportedApp[n] ELSE NoFields[n].val)]) :
    pt \in {"missing", "null", "value"}, t \in [FieldNames -> {"missing", "value"}] }

OtherDocs == { Doc(k, Field("missing", <<>>), NoFields) : k \in {"unparsable", "null", "scalar"} }

InitImport ==
  \E l \in {<<>>, <<ImportedPerson(2, "Sales", "UK")>>}, app \in {AppDefaults, CustomApp} :
    InitApp(l, app, EmptyStorage)

NextImport ==
  \/ Render
  \/ Untouched /\ \E doc \in LegacyDocs \cup SnapshotDocs \cup OtherDocs : Import(doc)

SpecImport == InitImport /\ [][NextImport]_vars

\* App mounting on a browser whose localStorage holds, per key, nothing,
\* text that JSON.parse rejects, the text "null" or a stored value.
StoredValue ==
  [people |-> <<ImportedPerson(1, "Ops", "Berlin")>>,
   departments |-> ImportedApp.departments,
   locations |-> ImportedApp.locations,
   jobTitles |-> ImportedApp.jobTitles,
   departmentColors |-> ImportedApp.departmentColors,
   locationColors |-> ImportedApp.locationColors,
   lineSettings |-> [secondaryStyle |-> "solid"],
   cardSettings |-> [padding |-> "compact"]]

StorageKeys == DOMAIN EmptyStorage

EntryTags(k) ==
  IF k \in {"people", "lineSettings"} THEN {"absent", "corrupt", "null", "value"}
  ELSE {"absent", "corrupt", "value"}

Storages ==
  { [k \in StorageKeys |->
       RawEntry(t[k], IF t[k] = "value" THEN StoredValue[k] ELSE EmptyStorage[k].val)] :
    t \in {f \in [StorageKeys -> {"absent", "corrupt", "null", "value"}] :
             \A k \in StorageKeys : f[k] \in EntryTags(k)} }

InitLoad ==
  \E store \in Storages :
    /\ supportDrop = NoDrop
    /\ secondaryManagerIds = <<>>
    /\ supportedIds = <<>>
    /\ closure = <<>>
    /\ LinesMounted
    /\ AppIs(AppDefaults)
    /\ prevApp = AppDefaults
    /\ lastDoc = NoDoc
    /\ storage = store
    /\ prevStorage = store
  /\ editingPerson = NoPerson
  /\ nodeRects = <<>>
  /\ marginTop = <<>>
  /\ scale = InitialScale
    /\ people = <<>>
    /\ prevPeople = <<>>
    /\ lastOp = OpRecord("boot", Empty, Empty, "none", NoPerson)
    /\ rendered = FALSE
    /\ rootPeople = <<>>
    /\ effectiveTiers = <<>>
    /\ childRows = StaleRows
    /\ older = [people |-> <<>>, op |-> OpRecord("none", Empty, Empty, "none", NoPerson)]

NextLoad ==
  \/ Load
  \/ lastOp.op = "load" /\ Render
  \/ AutoSave

SpecLoad == InitLoad /\ [][NextLoad]_vars

\* The edit modal's registry controls on a chart of one person, starting
\* from the compiled-in registries.
RegistryFields == {"department", "location", "title"}

\* what can be typed as a new value: a value already registered, or one
\* that is not
NewValues(field) == SeqToSet(registryOf(field)) \cup {"Other"}

InitRegistry == InitWith(<<ImportedPerson(1, DEPARTMENTS[1], LOCATIONS[1])>>)

NextRegistry ==
  \/ Render
  \/ \E id \in IdsOf(people) : EditClick(id)
  \/ \E field \in RegistryFields, viaButton \in BOOLEAN :
       \E name \in NewValues(field) : AddRegistryValue(field, name, viaButton)
  \/ \E field \in RegistryFields : DeleteRegistryValue(field)

SpecRegistry == InitRegistry /\ [][NextRegistry]_vars

\* One layout and one alignment of a chart of AlignPeople persons: a root,
\* its department heads and their reports, some with a manual tier; the
\* browser places every card at one of a few tops, whole pixels and half
\* pixels, with one of two heights.
AlignLists ==
  { l \in ListsOver(AlignPeople, {Null, "a", "b", "c"}, {"Executive"}, {NoOrder}, {FALSE}, {1},
                    {NoTier, 2}) :
      /\ l[1].managerId = Null /\ l[1].tier = NoTier
      /\ l[2].managerId = "a" /\ l[2].tier = NoTier
      /\ l[3].managerId \in {"a", "b"}
      /\ l[4].managerId \in {"b", "c"} /\ l[4].tier = NoTier }

NaturalTops == {100 * Px, 100 * Px + 1, 140 * Px}
CardHeights == {80 * Px, 120 * Px}

InitAlign == \E l \in AlignLists : InitWith(l)

NextAlign ==
  \/ Render
  \/ \E rects \in [nodeIds(people) -> [top : NaturalTops, height : CardHeights]] : Layout(rects)
  \/ AlignTiers

SpecAlign == InitAlign /\ [][NextAlign]_vars

\* The canvas controls on a rendered chart.  Wheel factors: 0.998 ^ deltaY
\* for deltaY = 100 and -100, for one notch of a fine wheel either way, and
\* for a deltaY so large that the power underflows to 0 or grows past any
\* scale.
WheelFactors == {0, 819, 998, 1002, 1221, 1000 * Unit}
ContainerSizes == {300, 1200}
ContentSizes == {0, 200, 1000, 20000}

InitZoom == InitWith(<<>>)

NextZoom ==
  \/ Render
  \/ \E factor \in WheelFactors : Wheel(factor)
  \/ ZoomIn
  \/ ZoomOut
  \/ ResetZoom
  \/ \E cw \in ContainerSizes, ch \in ContainerSizes, w \in ContentSizes, h \in ContentSizes :
       FitToScreen(cw, ch, w, h)

SpecZoom == InitZoom /\ [][NextZoom]_vars

\* The connectors of a chart of ConnectorPeople persons: a root a; b, a
\* department head or a second root (its manager is gone), in a registered
\* department or in one the registry does not hold; c and d below them or
\* managing each other; c and d with secondary managers, b supporting c
\* and d.  The chart mounts, the initial calculation runs, cards are deleted.
ConnectorLists ==
  { l \in ListsOver(ConnectorPeople, {Null, "a", "b", "c", "d", GhostId},
                    {"Executive", "Legal"}, {NoOrder}, {FALSE}, {1}, {NoTier}) :
      /\ l[1].managerId = Null /\ l[1].department = "Executive"
      /\ l[2].managerId \in {"a", GhostId}
      /\ l[3].managerId \in {"a", "b", "d"} /\ l[3].department = "Executive"
      /\ l[4].managerId \in {"b", "c"} /\ l[4].department = "Executive" }

SecondaryChoices ==
  { [id \in {"c", "d"} |-> IF id = "c" THEN forC ELSE forD] :
      forC \in {<<>>, <<"a">>, <<"a", "d">>, <<GhostId, "b">>}, forD \in {<<>>, <<"b">>} }
SupportChoices == { [id \in {"b"} |-> forB] : forB \in {<<>>, <<"c">>, <<"c", "d">>} }

InitPaths ==
  \E l \in ConnectorLists, sec \in SecondaryChoices, sup \in SupportChoices :
    InitChart(l, AppDefaults, EmptyStorage, sec, sup)

NextPaths ==
  \/ MountChart
  \/ Tick(PathsMaxTime)
  \/ TimerFires
  \/ \E id \in {"c", "d"} : DeleteShown(id)

SpecPaths == InitPaths /\ [][NextPaths]_vars

\* A chart of two cards on screen; the observer notifies at any instant,
\* up to MaxVersion document versions; time runs to DebounceMaxTime; the
\* second card may be deleted, which renders Lines anew.
InitDebounce ==
  InitWith(<<[NoPerson EXCEPT !.id = "a", !.name = 1, !.department = "Executive"],
             [NoPerson EXCEPT !.id = "b", !.name = 1, !.department = "Executive",
                              !.managerId = "a"]>>)

NextDebounce ==
  \/ MountChart
  \/ Tick(DebounceMaxTime)
  \/ TimerFires
  \/ Notify(MaxVersion)
  \/ DeleteShown("b")

SpecDebounce == InitDebounce /\ [][NextDebounce]_vars

\* A chart of two cards on screen; the scale is changed up to
\* MaxScaleChanges times (zoom in from 80%, reset) at any instant; the
\* second card may be deleted at any instant; time runs to ZoomMaxTime.
InitZoomLoop == InitDebounce

NextZoomLoop ==
  \/ MountChart
  \/ Tick(ZoomMaxTime)
  \/ TimerFires
  \/ FrameFires
  \/ \E s \in {InitialScale, zoomInScale(InitialScale)} : ScaleChange(s, MaxScaleChanges)
  \/ DeleteShown("b")

SpecZoomLoop == InitZoomLoop /\ [][NextZoomLoop]_vars

\* Every caller of calculatePaths on a chart of two cards: the initial
\* timer, the debounce timer after a notification, the frames after a
\* scale change; the document changes with each notification and with the
\* delete of the second card.
InitCache == InitDebounce

NextCache ==
  \/ MountChart
  \/ Tick(CacheMaxTime)
  \/ TimerFires
  \/ FrameFires
  \/ Notify(CacheVersions)
  \/ ScaleChange(zoomInScale(InitialScale), CacheScaleChanges)
  \/ DeleteShown("b")

SpecCache == InitCache /\ [][NextCache]_vars

\* Support lines converging on one target: every card width up to
\* MaxCardWidth pixels, one to MaxSupporters lines, supporters left or
\* right of the target, the target at one of two centres.
InitSupport ==
  \E w \in 1..MaxCardWidth, n \in 1..MaxSupporters, side \in {0 - 1, 1}, x \in {400, 1000} :
    InitLinked(<<>>, AppDefaults, EmptyStorage, <<>>, <<>>,
               [centerX |-> x, cardWidth |-> w, attachSide |-> side, total |-> n, endX |-> <<>>])

NextSupport == DropSupportLines

SpecSupport == InitSupport /\ [][NextSupport]_vars

\* Drops dispatched one after the other, up to MaxQueued of them before
\* React renders, on any stored forest.
InitDispatch == \E l \in ForestLists : InitWith(l)

NextDispatch ==
  \/ Render
  \/ \E a \in IdsOf(people), t \in IdsOf(people) : DispatchMove(a, t, MaxQueued)
  \/ Flush

SpecDispatch == InitDispatch /\ [][NextDispatch]_vars

\* The chart and its department registry: a root a in Executive and its
\* report b in Sales, both departments registered. The edit modal changes
\* a department to one its select lists (the registry), adds a department
\* and deletes the selected one; cards are dragged onto each other.
DepartmentEdits(ppl, id) ==
  { e \in EditsOf(ppl, id, SeqToSet(departments), {NoTier}) :
      e.managerId = Find(ppl, id).managerId }

InitCharted ==
  InitWith(<<[NoPerson EXCEPT !.id = "a", !.name = 1, !.department = DEPARTMENTS[1]],
             [NoPerson EXCEPT !.id = "b", !.name = 1, !.department = DEPARTMENTS[2],
                              !.managerId = "a"]>>)

NextModal ==
  \/ Render
  \/ \E id \in IdsOf(people) : EditClick(id)
  \/ \E id \in IdsOf(people) : \E u \in DepartmentEdits(people, id) : Update(u)
  \/ \E name \in NewValues("department"), viaButton \in BOOLEAN :
       AddRegistryValue("department", name, viaButton)
  \/ DeleteRegistryValue("department")

NextCharted ==
  \/ NextModal
  \/ \E a \in IdsOf(people), t \in IdsOf(people) : Move(a, t)

SpecCharted == InitCharted /\ [][NextCharted]_vars

\* The same chart with the add modal instead of drag and drop: its
\* department select lists the registry, its state starts at DEPARTMENTS[0]
\* and is put back there after every add.
NextDepartments ==
  \/ NextModal
  \/ \E id \in Ids, m \in {Null} \cup IdsOf(people),
         d \in SeqToSet(departments) \cup {DEPARTMENTS[1]} : Add(id, 1, d, m)

SpecDepartments == InitCharted /\ [][NextDepartments]_vars

\* ------------------------------------------------------------ claims
Person(ppl, id) == Find(ppl, id)
DirectReports(ppl, id) == {ppl[k].id : k \in {j \in 1..Len(ppl) : ppl[j].managerId = id}}

\* C1: a move of A onto one of A's transitive reports changes nothing: the
\* handler does not reach its mutation (alert, or the walk overflows) and
\* every record, in order, is what it was before the call.
MoveOntoReportRejected ==
  (lastOp.op = "move" /\ lastOp.arg \in TransitiveReports(prevPeople, lastOp.id))
    => (lastOp.outcome # "moved" /\ people = prevPeople)

\* a drop on a report of a report (not a direct report) was refused
MoveOntoReportRejectedWitness ==
  /\ lastOp.op = "move"
  /\ lastOp.outcome = "rejected"
  /\ lastOp.arg \in TransitiveReports(prevPeople, lastOp.id)
  /\ lastOp.arg \notin DirectReports(prevPeople, lastOp.id)
  /\ Person(people, lastOp.id).managerId = Null

\* C2: from a forest, any sequence of moves leaves a forest: no id is its
\* own transitive manager.
MoveKeepsForest == Forest(people)

\* a second-level report exists right after a move that changed the list
MoveKeepsForestWitness ==
  /\ lastOp.op = "move" /\ lastOp.outcome = "moved"
  /\ people # prevPeople
  /\ Cardinality(TransitiveManagers(people, lastOp.id)) >= 2
  /\ Cardinality(TransitiveManagers(prevPeople, lastOp.id)) = 0

\* C3: in every state reachable through add, update, delete, move and
\* reorder nobody is their own transitive manager.
ManagerGraphAcyclic ==
  \A i \in 1..Len(people) : people[i].id \notin TransitiveManagers(people, people[i].id)

\* ---- Hierarchy Deriver claims
HasNoManager(ppl, id) == Person(ppl, id).managerId \in {Null, Absent, Empty}
Dangling(ppl, id) == ~HasNoManager(ppl, id) /\ ~Has(ppl, Person(ppl, id).managerId)
IsRoot(ppl, id) == HasNoManager(ppl, id) \/ Dangling(ppl, id)
InCycle(ppl, id) == id \in TransitiveManagers(ppl, id)

RECURSIVE ReachedWithin(_, _, _)
ReachedWithin(ppl, id, k) ==
  IsRoot(ppl, id) \/ (k > 0 /\ ReachedWithin(ppl, Person(ppl, id).managerId, k - 1))

\* the manager chain of id ends at a root
ReachedFromRoot(ppl, id) == ReachedWithin(ppl, id, Len(ppl))

Manual(ppl, id, dflt) == IF Person(ppl, id).tier = NoTier THEN dflt ELSE Person(ppl, id).tier

\* the reference definition of the effective tier, by recursion on the
\* manager chain
RECURSIVE RefTier(_, _)
RefTier(ppl, id) ==
  IF IsRoot(ppl, id) \/ ~ReachedFromRoot(ppl, id) THEN Manual(ppl, id, 0)
  ELSE LET parentTier == RefTier(ppl, Person(ppl, id).managerId)
       IN IF Person(ppl, id).tier = NoTier THEN parentTier + 1
          ELSE Max(Person(ppl, id).tier, parentTier + 1)

\* C4 (as stated): every person whose managerId resolves to a person of the
\* list has a strictly greater effective tier than that manager.
TierAboveManagerAlways ==
  rendered =>
    \A id \in IdsOf(people) :
      Has(people, Person(people, id).managerId)
        => effectiveTiers[id] > effectiveTiers[Person(people, id).managerId]

\* C4 (amended): the same, for every person whose manager chain ends at a
\* root, i.e. who is neither on a manager cycle nor below one.
TierAboveManagerWhenReached ==
  rendered =>
    \A id \in IdsOf(people) :
      (Has(people, Person(people, id).managerId) /\ ReachedFromRoot(people, id))
        => effectiveTiers[id] > effectiveTiers[Person(people, id).managerId]

\* a manual tier not above the manager's tier was clamped upward, in a list
\* that also holds a person outside every tree
TierAboveManagerWitness ==
  /\ rendered
  /\ \E id \in IdsOf(people) :
       /\ Has(people, Person(people, id).managerId)
       /\ ReachedFromRoot(people, id)
       /\ Person(people, id).tier # NoTier
       /\ Person(people, id).tier <= effectiveTiers[Person(people, id).managerId]
       /\ effectiveTiers[id] = effectiveTiers[Person(people, id).managerId] + 1
  /\ \E id \in IdsOf(people) : ~ReachedFromRoot(people, id)

WithTier(ppl, id, t) == [i \in 1..Len(ppl) |-> IF ppl[i].id = id THEN [ppl[i] EXCEPT !.tier = t] ELSE ppl[i]]

ExampleTree ==
  << [NoPerson EXCEPT !.id = "e1", !.name = 1],
     [NoPerson EXCEPT !.id = "d1", !.name = 1, !.managerId = "e1"],
     [NoPerson EXCEPT !.id = "d2", !.name = 1, !.managerId = "e1", !.tier = 5] >>

\* C5: the rendered tier map is the reference definition (root: manual tier
\* or 0; reached person: parent + 1, or max(manual, parent + 1); unreached
\* person: manual tier or 0); giving a sibling another manual tier leaves a
\* person's tier as it is; the e1/d1/d2 example yields 0, 1, 5.
TiersMatchReference ==
  rendered =>
    /\ DOMAIN effectiveTiers = IdsOf(people)
    /\ \A id \in IdsOf(people) : effectiveTiers[id] = RefTier(people, id)
    /\ \A id \in IdsOf(people), sib \in IdsOf(people), t \in {NoTier} \cup 0..MaxTier :
         (sib # id /\ Person(people, sib).managerId = Person(people, id).managerId)
           => effectiveTiersOf(WithTier(people, sib, t))[id] = effectiveTiers[id]
    /\ effectiveTiersOf(ExampleTree) = [id \in {"e1", "d1", "d2"} |->
                                          IF id = "e1" THEN 0 ELSE IF id = "d1" THEN 1 ELSE 5]

\* a root with two reports, one pushed down by its manual tier, the other
\* at the natural tier
TiersMatchReferenceWitness ==
  /\ rendered
  /\ \E r \in IdsOf(people), x \in IdsOf(people), y \in IdsOf(people) :
       /\ x # y
       /\ IsRoot(people, r) /\ effectiveTiers[r] = 0
       /\ Person(people, x).managerId = r /\ Person(people, y).managerId = r
       /\ Person(people, x).tier = NoTier /\ effectiveTiers[x] = 1
       /\ Person(people, y).tier = MaxTier /\ effectiveTiers[y] = MaxTier

\* C6: the root row holds exactly the persons with no manager (null, absent
\* or '') and those whose managerId matches nobody, each once; a dangling
\* reference yields a root, and nobody on a manager cycle is a root.
RootSetExact ==
  rendered =>
    /\ SeqToSet(rootPeople) = {id \in IdsOf(people) : HasNoManager(people, id)}
                                \cup {id \in IdsOf(people) : Dangling(people, id)}
    /\ Len(rootPeople) = Cardinality(SeqToSet(rootPeople))
    /\ \A id \in IdsOf(people) : InCycle(people, id) => id \notin SeqToSet(rootPeople)

\* one root by dangling reference, next to a two-person manager cycle
RootSetExactWitness ==
  /\ rendered
  /\ \E id \in IdsOf(people) : Dangling(people, id) /\ id \in SeqToSet(rootPeople)
  /\ \E id \in IdsOf(people) : InCycle(people, id) /\ Person(people, id).managerId # id

\* ---- handler contracts
Moved == lastOp.op = "move" /\ lastOp.outcome = "moved"
DepartmentOf(ppl, id) == Person(ppl, id).department
SameIdsInOrder(ppl, old) ==
  Len(ppl) = Len(old) /\ \A i \in 1..Len(old) : ppl[i].id = old[i].id
\* everybody but A and A's transitive reports is as before
OthersUntouched(a) ==
  \A i \in 1..Len(prevPeople) :
    prevPeople[i].id \notin ({a} \cup TransitiveReports(prevPeople, a)) => people[i] = prevPeople[i]

\* C7 (as stated): after a successful move of A onto T, A.managerId = T,
\* A and all of A's transitive reports carry T's department, and everybody
\* else is unchanged.
MoveForcesTargetDepartment ==
  Moved =>
    /\ SameIdsInOrder(people, prevPeople)
    /\ Person(people, lastOp.id).managerId = lastOp.arg
    /\ \A r \in {lastOp.id} \cup TransitiveReports(prevPeople, lastOp.id) :
         DepartmentOf(people, r) = DepartmentOf(people, lastOp.arg)
    /\ OthersUntouched(lastOp.id)

\* C7 (amended): as stated when T's department is a non-empty string; when
\* T has no department (''), A.managerId = T and nobody's department
\* changes.
MoveForcesNonEmptyTargetDepartment ==
  Moved =>
    /\ SameIdsInOrder(people, prevPeople)
    /\ Person(people, lastOp.id).managerId = lastOp.arg
    /\ DepartmentOf(people, lastOp.arg) = DepartmentOf(prevPeople, lastOp.arg)
    /\ \A r \in {lastOp.id} \cup TransitiveReports(prevPeople, lastOp.id) :
         DepartmentOf(people, r) =
           IF DepartmentOf(prevPeople, lastOp.arg) # Empty
           THEN DepartmentOf(prevPeople, lastOp.arg)
           ELSE DepartmentOf(prevPeople, r)
    /\ OthersUntouched(lastOp.id)

\* A had a report and a report of that report, all in another department
\* than T, and T's department is set
MoveForcesDepartmentWitness ==
  /\ Moved
  /\ DepartmentOf(people, lastOp.arg) # Empty
  /\ \E r1 \in IdsOf(people), r2 \in IdsOf(people) :
       /\ Person(prevPeople, r1).managerId = lastOp.id
       /\ Person(prevPeople, r2).managerId = r1
       /\ \A r \in {lastOp.id, r1, r2} :
            /\ DepartmentOf(prevPeople, r) # DepartmentOf(prevPeople, lastOp.arg)
            /\ DepartmentOf(people, r) = DepartmentOf(people, lastOp.arg)

\* C8: an update whose department differs from the stored one replaces the
\* record and gives every transitive report (of the pre-update list) the
\* new department, touching nothing else; with the same department only the
\* record is replaced.
UpdateReplacesAndCascades ==
  lastOp.op = "update" =>
    /\ Len(people) = Len(prevPeople)
    /\ \A i \in 1..Len(prevPeople) :
         people[i] =
           IF prevPeople[i].id = lastOp.id THEN lastOp.rec
           ELSE IF /\ DepartmentOf(prevPeople, lastOp.id) # lastOp.rec.department
                   /\ prevPeople[i].id \in TransitiveReports(prevPeople, lastOp.id)
                THEN [prevPeople[i] EXCEPT !.department = lastOp.rec.department]
                ELSE prevPeople[i]

\* C9: delete takes out exactly the record of that id; every other record
\* stays as it was and in order; the direct reports keep their managerId,
\* which now matches nobody, and are in the root row of the next render.
DeleteRemovesOneRecord ==
  lastOp.op = "delete" =>
    /\ \E k \in 1..Len(prevPeople) :
         /\ prevPeople[k].id = lastOp.id
         /\ people = SubSeq(prevPeople, 1, k - 1) \o SubSeq(prevPeople, k + 1, Len(prevPeople))
    /\ \A r \in DirectReports(prevPeople, lastOp.id) \ {lastOp.id} :
         /\ Person(people, r).managerId = lastOp.id
         /\ Dangling(people, r)
         /\ r \in SeqToSet(rootPeople)

\* the deleted person had a report that was no root before the delete
DeleteRemovesOneRecordWitness ==
  /\ lastOp.op = "delete"
  /\ \E r \in DirectReports(prevPeople, lastOp.id) \ {lastOp.id} :
       /\ r \notin SeqToSet(idsOfSeq(rootPeopleOf(prevPeople)))
       /\ r \in SeqToSet(rootPeople)
  /\ Len(people) >= 2

\* ---- reorder
NormalMgr(m) == IF m \in {Null, Absent, Empty} THEN Null ELSE m
InGroupOf(ppl, id, q) == NormalMgr(q.managerId) = NormalMgr(Person(ppl, id).managerId)
\* the ids of id's sibling group in comparator order
SortedGroup(ppl, id) == idsOfSeq(SortPeople(SelectSeq(ppl, LAMBDA q : InGroupOf(ppl, id, q))))
PositionIn(s, x) == CHOOSE k \in 1..Len(s) : s[k] = x
NeighbourPosition(ppl, id, dir) ==
  PositionIn(SortedGroup(ppl, id), id) + (IF dir = "left" THEN -1 ELSE 1)
HasNeighbour(ppl, id, dir) ==
  NeighbourPosition(ppl, id, dir) \in 1..Len(SortedGroup(ppl, id))
Exchanged(s, i, j) == [k \in 1..Len(s) |-> IF k = i THEN s[j] ELSE IF k = j THEN s[i] ELSE s[k]]

\* C10: a reorder of p towards an existing neighbour leaves the n siblings
\* with the sortOrder values 0..n-1, each once; p and the neighbour have
\* exchanged places in the sorted sibling sequence and the rest of it is as
\* before; persons outside the group are unchanged (and siblings change in
\* sortOrder only).
ReorderNormalizesAndSwaps ==
  (lastOp.op = "reorder" /\ HasNeighbour(prevPeople, lastOp.id, lastOp.arg)) =>
    LET before == SortedGroup(prevPeople, lastOp.id)
        n == Len(before)
    IN /\ SameIdsInOrder(people, prevPeople)
       /\ {Person(people, before[k]).sortOrder : k \in 1..n} = 0..(n - 1)
       /\ SortedGroup(people, lastOp.id) =
            Exchanged(before, PositionIn(before, lastOp.id),
                      NeighbourPosition(prevPeople, lastOp.id, lastOp.arg))
       /\ \A i \in 1..Len(prevPeople) :
            IF InGroupOf(prevPeople, lastOp.id, prevPeople[i])
            THEN people[i] = [prevPeople[i] EXCEPT !.sortOrder = people[i].sortOrder]
            ELSE people[i] = prevPeople[i]

\* three siblings, one without sortOrder and two with the same one, and the
\* middle one moved
ReorderNormalizesAndSwapsWitness ==
  /\ lastOp.op = "reorder" /\ lastOp.outcome = "swapped"
  /\ Len(SortedGroup(prevPeople, lastOp.id)) = 3
  /\ PositionIn(SortedGroup(prevPeople, lastOp.id), lastOp.id) = 2
  /\ \E x \in IdsOf(prevPeople), y \in IdsOf(prevPeople), z \in IdsOf(prevPeople) :
       /\ x # y
       /\ Person(prevPeople, x).sortOrder = Person(prevPeople, y).sortOrder
       /\ Person(prevPeople, x).sortOrder # NoOrder
       /\ Person(prevPeople, z).sortOrder = NoOrder
  /\ people # prevPeople

\* ---- reorder round trip
Opposite(dir) == IF dir = "left" THEN "right" ELSE "left"
\* the last two calls were reorder(p, d), which found a neighbour, and then
\* reorder(p, opposite of d)
WentThereAndBack ==
  /\ lastOp.op = "reorder" /\ older.op.op = "reorder"
  /\ older.op.outcome = "swapped"
  /\ lastOp.id = older.op.id
  /\ lastOp.arg = Opposite(older.op.arg)

\* C11: reorder(p, 'right') then reorder(p, 'left'), p having a right
\* neighbour, gives back the comparator-sorted sibling sequence from before
\* the two calls; the same for left then right.
ReorderRoundTrip ==
  WentThereAndBack => SortedGroup(people, lastOp.id) = SortedGroup(older.people, lastOp.id)

\* a round trip on a row of three whose stored sortOrder values did not
\* survive it
ReorderRoundTripWitness ==
  /\ WentThereAndBack
  /\ lastOp.outcome = "swapped"
  /\ Len(SortedGroup(people, lastOp.id)) = 3
  /\ people # older.people
  /\ prevPeople # people

\* ---- composer and reorder
\* C12: for every manager that HierarchyTree renders, the rendered
\* left-to-right order of its direct reports is the sequence that
\* handleReorderPerson sorts (the comparator-sorted sibling group).
ComposerUsesReorderSequence ==
  childRows # StaleRows =>
    \A m \in DOMAIN childRows :
      \A k \in 1..Len(childRows[m]) : childRows[m] = SortedGroup(people, childRows[m][k])

\* ---- placement
\* the person the last add or successful move has placed under a manager
Placed == IF lastOp.op = "add" THEN lastOp.rec.id ELSE lastOp.id
LastOf(seq) == seq[Len(seq)]

\* C13: the person placed by handleAddNewPerson, or by a successful
\* handleMovePerson, is the last element of its new sibling group under the
\* sibling comparator, whatever sortOrder values (missing ones included) the
\* existing siblings carry.
PlacedPersonIsLast ==
  (lastOp.op = "add" \/ Moved) => LastOf(SortedGroup(people, Placed)) = Placed

\* ---- import
Imported(outcome) == lastOp.op = "import" /\ lastOp.outcome = outcome
\* registry is old, in its order, followed by every value of seen that old
\* does not hold, each once
ExtendedOnce(registry, old, seen) ==
  /\ SubSeq(registry, 1, Len(old)) = old
  /\ SeqToSet(registry) = SeqToSet(old) \cup seen
  /\ \A v \in seen \ SeqToSet(old) : Occurrences(registry, v) = 1

\* C14: after the import of a bare Person array the person list is the
\* array, every department and location value of the array that was not
\* registered is registered exactly once after the existing entries, and
\* job titles, colour maps and both settings objects are as before.
LegacyImportExtendsRegistries ==
  Imported("legacy") =>
    LET arr == lastDoc.people.val
    IN /\ people = arr
       /\ ExtendedOnce(departments, prevApp.departments,
                       {arr[i].department : i \in 1..Len(arr)} \ {Empty})
       /\ ExtendedOnce(locations, prevApp.locations,
                       {arr[i].location : i \in 1..Len(arr)} \ {Empty})
       /\ jobTitles = prevApp.jobTitles
       /\ departmentColors = prevApp.departmentColors
       /\ locationColors = prevApp.locationColors
       /\ lineSettings = prevApp.lineSettings
       /\ cardSettings = prevApp.cardSettings

\* both persons of the array carry the same brand-new department, and a
\* location that was registered already
LegacyImportWitness ==
  /\ Imported("legacy")
  /\ \A i \in 1..Len(people) : people[i].department = "Ops" /\ people[i].location = "UK"
  /\ Len(people) = ImportLen
  /\ Occurrences(departments, "Ops") = 1
  /\ prevApp = CustomApp

\* C15: after the import of a snapshot object each of the eight fields
\* holds the imported value when the object carries the field and the
\* pre-import value when it does not.
SnapshotImportTakesEveryField ==
  Imported("snapshot") =>
    /\ people = lastDoc.people.val
    /\ \A n \in FieldNames :
         AppNow[n] = IF lastDoc.fields[n].tag = "value" THEN lastDoc.fields[n].val ELSE prevApp[n]

\* C16: content that is neither an array nor an object with a people field
\* is answered with an alert and changes nothing of the application state.
UnrecognizedImportRejected ==
  (lastOp.op = "import" /\ (lastDoc.kind \notin {"array", "object"} \/ lastDoc.people.tag = "missing")) =>
    /\ lastOp.outcome \in {"alert: Error parsing JSON file.", "alert: Invalid data format."}
    /\ people = prevPeople
    /\ AppNow = prevApp

\* an object without people, but with registries, was turned down by an
\* application that had people and edited registries
UnrecognizedImportWitness ==
  /\ lastOp.op = "import" /\ lastDoc.kind = "object" /\ lastDoc.people.tag = "missing"
  /\ lastDoc.fields.departments.tag = "value"
  /\ lastOp.outcome = "alert: Invalid data format."
  /\ Len(people) > 0 /\ prevApp = CustomApp

\* ---- load
\* the state field that belongs to storage key k
FieldOf(k) == IF k = "people" THEN people ELSE AppNow[k]
DefaultOf(k) == IF k = "people" THEN <<>> ELSE AppDefaults[k]
\* the initializer has run and no effect has written storage since
JustLoaded == lastOp.op = "load" /\ ~rendered

\* C17: after the initializer, for each storage key on its own: a stored
\* text that does not parse leaves the field at its compiled-in default and
\* the key absent from storage; an absent key leaves the field at its
\* default and storage as it was; a stored value is the field's value
\* (laid over the defaults for the two settings objects) and stays stored.
LoadFallsBackPerKey ==
  JustLoaded =>
    \A k \in StorageKeys :
      LET before == prevStorage[k]
      IN /\ before.tag = "corrupt" => FieldOf(k) = DefaultOf(k) /\ storage[k].tag = "absent"
         /\ before.tag = "absent" => FieldOf(k) = DefaultOf(k) /\ storage[k] = before
         /\ before.tag = "value" =>
              /\ storage[k] = before
              /\ FieldOf(k) =
                   IF k \in {"lineSettings", "cardSettings"}
                   THEN mergedSettings(DefaultOf(k), before.val)
                   ELSE before.val

\* a corrupt people key next to a stored department registry and an absent
\* location registry
LoadFallsBackWitness ==
  /\ JustLoaded
  /\ prevStorage.people.tag = "corrupt" /\ storage.people.tag = "absent" /\ people = <<>>
  /\ prevStorage.departments.tag = "value" /\ departments = StoredValue.departments
  /\ prevStorage.locations.tag = "absent" /\ locations = LOCATIONS
  /\ prevStorage.lineSettings.tag = "value" /\ lineSettings # DEFAULT_LINE_SETTINGS

\* ---- registries
\* C18: the department, location and job-title registries each hold at
\* least one value, whatever values were added and deleted in the edit
\* modal.
RegistriesNeverEmpty ==
  Len(departments) > 0 /\ Len(locations) > 0 /\ Len(jobTitles) > 0

\* ---- tier alignment
Aligned == lastOp.op = "align"
TopOf(id) == measureNode(nodeRects, marginTop, people, id).top
BottomOf(id) == measureNode(nodeRects, marginTop, people, id).bottom
Nodes == DOMAIN marginTop
TierOf(id) == effectiveTiers[id]
OccupiedTiers == {TierOf(id) : id \in Nodes}
ConsecutiveTiers(t, u) == t < u /\ ~ \E v \in OccupiedTiers : t < v /\ v < u
MinTopOf(t) == MinOf({TopOf(id) : id \in tierGroup(effectiveTiers, Nodes, t)})
MaxBottomOf(t) == MaxOf({BottomOf(id) : id \in tierGroup(effectiveTiers, Nodes, t)})

\* C19 as stated: after the alignment all cards of one effective tier have
\* the same top, and each occupied tier starts at least tierGap below the
\* lowest bottom of the occupied tier before it.
TiersAlignedExactly ==
  Aligned =>
    /\ \A x \in Nodes, y \in Nodes : TierOf(x) = TierOf(y) => TopOf(x) = TopOf(y)
    /\ \A t \in OccupiedTiers, u \in OccupiedTiers :
         ConsecutiveTiers(t, u) => MinTopOf(u) >= MaxBottomOf(t) + tierGap

\* every card was laid out on whole pixels
WholePixels == \A x \in Nodes : nodeRects[x].top % Px = 0 /\ nodeRects[x].height % Px = 0

\* C19, amended: after the alignment the tops of the cards of one effective
\* tier differ by at most half a pixel, each occupied tier starts at least
\* tierGap minus half a pixel below the lowest bottom of the occupied tier
\* before it, and no card has moved up; when every card was laid out on
\* whole pixels the tops of a tier are equal and the gap is at least
\* tierGap.
TiersAlignedWithinHalfPixel ==
  Aligned =>
    /\ \A x \in Nodes, y \in Nodes :
         TierOf(x) = TierOf(y) => 2 * (TopOf(x) - TopOf(y)) <= Px
    /\ \A t \in OccupiedTiers, u \in OccupiedTiers :
         ConsecutiveTiers(t, u) => 2 * (MinTopOf(u) - MaxBottomOf(t) - tierGap) >= -Px
    /\ \A x \in Nodes : TopOf(x) >= nodeRects[x].top
    /\ WholePixels =>
         /\ \A x \in Nodes, y \in Nodes : TierOf(x) = TierOf(y) => TopOf(x) = TopOf(y)
         /\ \A t \in OccupiedTiers, u \in OccupiedTiers :
              ConsecutiveTiers(t, u) => MinTopOf(u) >= MaxBottomOf(t) + tierGap

\* the two heads b and c share a tier, were laid out at 100px and 140px and
\* are both at 140px plus whatever the gap to the root's tier took; d, a
\* tier further down, was pushed as well
TiersAlignedWitness ==
  /\ Aligned
  /\ TierOf("b") = TierOf("c")
  /\ nodeRects["b"].top = 100 * Px /\ nodeRects["c"].top = 140 * Px
  /\ TopOf("b") = TopOf("c")
  /\ marginTop["b"] >= 40 * Px
  /\ TierOf("d") > TierOf("b") /\ TopOf("d") > nodeRects["d"].top

\* ---- viewport
\* C20: the zoom factor is at least MIN_ZOOM and at most MAX_ZOOM in every
\* state, whatever wheel zooms, zoom buttons, fits and resets came before.
ScaleWithinBounds == MIN_ZOOM <= scale /\ scale <= MAX_ZOOM

\* a wheel zoom at the lower limit stayed there
ScaleWithinBoundsWitness ==
  lastOp.op = "wheel" /\ scale = MIN_ZOOM

\* ---- connectors
PathsOfKind(kind) == SelectSeq(pathsData, LAMBDA path : path.key[1] = kind)
\* the connector list is the one of the chart on screen
PathsCurrent == lastRun.count > 0 /\ lastRun.version = dom.version /\ lastRun.scale = scale

\* C21: only the first entry of secondaryManagerIds is rendered: the
\* connector list holds at most one secondary-manager path per person, and
\* that path goes to the person's secondaryManagerIds[0].
OnlyFirstSecondaryRendered ==
  \A i \in 1..Len(pathsData) :
    pathsData[i].key[1] = "secondary" =>
      /\ pathsData[i].key[3] = secondaryOf(secondaryManagerIds, pathsData[i].key[2])[1]
      /\ \A j \in 1..Len(pathsData) :
            (pathsData[j].key[1] = "secondary" /\ pathsData[j].key[2] = pathsData[i].key[2]) => j = i

\* ---- debounce
PendingDebounce == {t \in timers : t.kind = "debounce"}

ZoomLoopRunsToEnd ==
  /\ Cardinality(frames) <= 1
  /\ \A f \in frames : f.startTime = lastEvent.scaleAt /\ f.handle = animationFrameRef
  /\ (lastEvent.scaleAt >= 0 /\ now - lastEvent.scaleAt < duration) => frames # {}

\* ---- position cache
\* the positions the connector list was built from
PositionsUsed == UNION {pathsData[i].uses : i \in 1..Len(pathsData)}

\* C24: every position a connector list was built from was measured in the
\* run that built it: from the document as it stood at that run (after the
\* last structure change) and under the scale of that run; no path rests on
\* a cache entry of an earlier document or of another scale.
PositionsFresh ==
  \A p \in PositionsUsed :
    /\ p.version = lastRun.version
    /\ p.scale \in {0, lastRun.scale}

\* the debounce timer has recomputed the paths after a change of the
\* document, with entries of an earlier run in the cache when it started
PositionsFreshWitness ==
  /\ lastRun.by = "debounce" /\ lastRun.count >= 2 /\ lastRun.version >= 2
  /\ Len(pathsData) > 0
  /\ \E k \in DOMAIN positionCache : positionCache[k].version = lastRun.version

\* ---- manager-to-reports connectors
DeptHeadIds == {deptHeadsOf(people)[k].id : k \in 1..Len(deptHeadsOf(people))}
Measured(id) == id \in dom.nodes
\* the measured direct reports of m that are not department heads, in list order
TreeReports(m) ==
  idsOfSeq(SelectSeq(people, LAMBDA p : p.managerId = m /\ p.id \notin DeptHeadIds /\ Measured(p.id)))
TreePathsOf(m) == SelectSeq(pathsData, LAMBDA path : path.key = <<"tree", m>>)

\* C25: calculatePaths emits exactly one tree path tree-<managerId> for every
\* manager with a measured position and at least one measured direct report
\* that is not a department head, its drops being exactly those reports; a
\* department head is reached by its badge-to-head elbow only, and a manager
\* or report without a measured rectangle contributes nothing.
TreePathsExact ==
  PathsCurrent =>
    /\ \A m \in IdsOf(people) \cup {GhostId} :
          IF Measured(m) /\ Len(TreeReports(m)) > 0
          THEN Len(TreePathsOf(m)) = 1 /\ TreePathsOf(m)[1].to = TreeReports(m)
          ELSE Len(TreePathsOf(m)) = 0
    /\ \A i \in 1..Len(pathsData) :
          pathsData[i].key[1] = "tree" =>
            /\ pathsData[i].key[2] \in IdsOf(people)
            /\ SeqToSet(pathsData[i].to) \cap DeptHeadIds = {}
            /\ \A p \in pathsData[i].uses : Measured(p.id)
    /\ \A h \in DeptHeadIds :
          Len(SelectSeq(pathsData, LAMBDA path : path.key = <<"badge-to-head", h>>))
            = IF Measured(h) /\ Find(people, h).department \in dom.badges THEN 1 ELSE 0

\* a run drew a tree below a department head while the root's reports (all
\* department heads) got their badge elbows and no tree, and a person whose
\* manager has no card got nothing
TreePathsExactWitness ==
  /\ PathsCurrent
  /\ \E i \in 1..Len(pathsData) : pathsData[i].key[1] = "tree" /\ pathsData[i].key[2] \in DeptHeadIds
  /\ \E h \in DeptHeadIds : Measured(h) /\ Len(TreePathsOf(Find(people, h).managerId)) = 0
  /\ \E i \in 1..Len(people) : Truthy(people[i].managerId) /\ ~Measured(people[i].managerId)

\* ---- support drops
\* C26: a support line never drops on the centre line of its target: for
\* every card width, every number of lines converging on the target and
\* every index among them, the drop x differs from the target's centerX.
SupportDropsOffCentre ==
  \A k \in 1..Len(supportDrop.endX) : supportDrop.endX[k] # Quarter * supportDrop.centerX

\* ---- back-to-back moves
\* move as a function of the snapshot it is applied to, applied to each
\* request in order
RECURSIVE MovesApplied(_, _)
MovesApplied(prev, requests) ==
  IF Len(requests) = 0 THEN prev
  ELSE MovesApplied(handleMovePerson(prev, prev, Head(requests)[1], Head(requests)[2]),
                    Tail(requests))

\* C27: the cycle check and the mutation of a move apply to the same
\* snapshot: after move requests dispatched back to back, before a render,
\* the list is the one obtained by applying move as a function of the
\* previous snapshot to each request in order, and it is acyclic when the
\* rendered list was.
BackToBackMovesCompose ==
  queued # <<>> =>
    /\ people = MovesApplied(closure, queued)
    /\ Forest(closure) => Forest(people)

\* ---- every person rendered once
\* C28: every person a root reaches through manager links is rendered
\* exactly once by the composer (root row, department rows, HierarchyTree,
\* TeamGroup), in every state the handlers reach.
EveryReachablePersonRenderedOnce ==
  \A id \in nodeIds(people) : timesRendered(people, departments, id, Len(people)) = 1

\* ---- registry referential integrity
\* C29: every person's department is an entry of the department registry,
\* after any sequence of add, update, move, legacy import, add-department
\* and delete-department.
DepartmentsRegistered ==
  \A i \in 1..Len(people) : people[i].department \in SeqToSet(departments)

\* ---- reorder in the root row
RootRow(ppl) == idsOfSeq(rootPeopleOf(ppl))
RootNeighbour(ppl, id, dir) == PositionIn(RootRow(ppl), id) + (IF dir = "left" THEN -1 ELSE 1)
RootHasNeighbour(ppl, id, dir) ==
  /\ id \in SeqToSet(RootRow(ppl))
  /\ RootNeighbour(ppl, id, dir) \in 1..Len(RootRow(ppl))

\* C30: a left/right reorder of a person of the root row (a person without
\* manager or with a managerId no record carries) that has a neighbour in
\* that direction in the row exchanges the two in the root row.
RootReorderExchanges ==
  (lastOp.op = "reorder" /\ RootHasNeighbour(prevPeople, lastOp.id, lastOp.arg)) =>
    RootRow(people) =
      Exchanged(RootRow(prevPeople), PositionIn(RootRow(prevPeople), lastOp.id),
                RootNeighbour(prevPeople, lastOp.id, lastOp.arg))

====
